---- MODULE Spec2Model ----
(***************************************************************************)
(* LabExT movement core: the per-stage Calibration state machine and the   *)
(* axis-mapping validation / rotation-matrix derivation                    *)
(* (LabExT/Movement/Calibration.py).                                       *)
(*                                                                         *)
(* Every method of Calibration is an operator from the object (a record of *)
(* its fields) and the call's arguments to the object after the call, the  *)
(* exception raised and the value returned; the actions apply the          *)
(* operators to the variables.                                             *)
(***************************************************************************)
EXTENDS Integers, FiniteSets, Sequences, TLC

VARIABLES
    cal,        \* the Calibration object: a record of its fields
    stage,      \* the Stage object the Calibration refers to
    call,       \* the last call on the Calibration: operation, arguments, outcome
    max_reached, \* history: the highest state the Calibration has been in
    vin,        \* is_axis_calibration_valid: the dict it is applied to
    vout,       \* is_axis_calibration_valid: its result
    vdone,      \* is_axis_calibration_valid: TRUE once it was applied
    mover,      \* the MoverNew object: its calibrations and its stored settings
    stages,     \* the Stage objects the Mover can use, by stage id
    mcall,      \* the last call on the Mover: operation, arguments, outcome
    wizard,     \* the StageCalibrationView: its step and its pending data
    trans,      \* a Transformation: the arguments, the object made from them,
                \* a point and what the conversions make of it
    window,     \* the KabschRotationWindow: its pairings and what setup made
    widget      \* a StageStatusWidget: its labels, its update job, and the
                \* status its stage reports

vars ==
    <<cal, stage, call, max_reached, vin, vout, vdone, mover, stages, mcall, wizard,
      trans, window, widget>>

\* the variables of the Mover, of the calibration wizard and of the
\* transformations
otherVars == <<mover, stages, mcall, wizard, trans, window, widget>>

----------------------------------------------------------------------------
(* Bounds *)

\* directions handed in by a caller are the integers -MaxDirValue..MaxDirValue
MaxDirValue == 1

\* number of distinct transformation objects a caller can hand in
MaxTransformations == 1

\* number of Stage objects that can be registered with the Mover
NumStages == 4

\* number of Stage objects used where the Mover's settings are exercised
NumSettingStages == 2

\* number of Calibrations the Mover holds when the calibration wizard opens
NumWizardCalibrations == 2

\* the coordinates of the points handed to a SinglePointFixation and of the
\* points converted are the integers -MaxCoord..MaxCoord
MaxCoord == 1

\* the chip coordinates handed to a KabschRotation are the integers
\* 0..MaxChipCoord
MaxChipCoord == 1

\* the largest number of pairings handed to a KabschRotation
MaxPairings == 3

\* number of devices of the chip that pairings can be made for
NumDevices == 4

\* number of different status values a stage reports for a channel
NumStatusValues == 2

----------------------------------------------------------------------------
(* Enumerations *)

Axis == {"X", "Y", "Z"}

AxisValue(a) == CASE a = "X" -> 0 [] a = "Y" -> 1 [] a = "Z" -> 2

POSITIVE == 1
NEGATIVE == -1
Direction == {POSITIVE, NEGATIVE}

Orientation == {"LEFT", "RIGHT", "TOP", "BOTTOM"}
DevicePosition == {"INPUT", "OUTPUT"}

UNINITIALIZED == 0
CONNECTED == 1
COORDINATE_SYSTEM_FIXED == 2
SINGLE_POINT_FIXED == 3
FULLY_CALIBRATED == 4
State == {UNINITIALIZED, CONNECTED, COORDINATE_SYSTEM_FIXED, SINGLE_POINT_FIXED, FULLY_CALIBRATED}

\* Python's None, for the transformation fields
None == 0

\* Python's max(a, b)
max(a, b) == IF a >= b THEN a ELSE b

----------------------------------------------------------------------------
(* Axis mappings: a dict from chip axis to (stage axis, direction) *)

\* the empty dict
EmptyDict == [k \in {} |-> <<"X", POSITIVE>>]

\* np.zeros((n, n)), indexed [row][column] from 0
zeros(n) == [r \in 0..(n - 1) |-> [c \in 0..(n - 1) |-> 0]]

\* np.identity(n)
identity(n) == [r \in 0..(n - 1) |-> [c \in 0..(n - 1) |-> IF r = c THEN 1 ELSE 0]]

\* matrix.itemset((r, c), v)
itemset(M, r, c, v) == [M EXCEPT ![r][c] = v]

is_axis_calibration_valid_no_directions(calibration) ==
    LET chip_axes == DOMAIN calibration
        stage_axes == {calibration[k][1] : k \in DOMAIN calibration}
    IN  Axis = chip_axes /\ Axis = stage_axes

is_axis_calibration_valid(calibration) ==
    LET chip_axes == DOMAIN calibration
        stage_axes == {calibration[k][1] : k \in DOMAIN calibration}
        directions == {calibration[k][2] : k \in DOMAIN calibration}
    IN  IF ~(directions \subseteq Direction)
        THEN FALSE
        ELSE Axis = chip_axes /\ Axis = stage_axes

----------------------------------------------------------------------------
(* The Stage driver, as far as the Calibration uses it *)

\* what stage.connect() can do: return True, return False, raise StageError
StageConnectResults == {"True", "False", "StageError"}

\* stage.connected after a connect() with the given result
Stage_connect(s, result) == [s EXCEPT !.connected = (result = "True")]

----------------------------------------------------------------------------
(* Calibration *)

\* the for loop of fix_coordinate_system over the items of the dict
RECURSIVE rotation_items(_, _, _)
rotation_items(M, axes_calibration, keys) ==
    IF keys = {} THEN M
    ELSE LET chip_axis == CHOOSE k \in keys : TRUE
             stage_axis == axes_calibration[chip_axis][1]
             direction == axes_calibration[chip_axis][2]
         IN  rotation_items(
                 itemset(M, AxisValue(stage_axis), AxisValue(chip_axis), direction),
                 axes_calibration, keys \ {chip_axis})

set_coordinate_system_to_default(c) ==
    LET default == [a \in Axis |-> <<a, POSITIVE>>]
    IN  [c EXCEPT !.axes_calibration = default,
                  !.axes_rotation_matrix = identity(Cardinality(DOMAIN default))]

Calibration_init_uninitialized(s, orientation, device_position) ==
    set_coordinate_system_to_default(
        [orientation |-> orientation,
         device_position |-> device_position,
         state |-> UNINITIALIZED,
         axes_calibration |-> EmptyDict,
         axes_rotation_matrix |-> None,
         single_point_transformation |-> None,
         full_transformation |-> None])

Calibration_init(s, orientation, device_position) ==
    set_coordinate_system_to_default(
        [orientation |-> orientation,
         device_position |-> device_position,
         state |-> IF s.connected THEN CONNECTED ELSE UNINITIALIZED,
         axes_calibration |-> EmptyDict,
         axes_rotation_matrix |-> None,
         single_point_transformation |-> None,
         full_transformation |-> None])

connect_to_stage_to_connected(c, result) ==
    IF result = "True"
    THEN [cal |-> [c EXCEPT !.state = CONNECTED], raised |-> "none", returned |-> "True"]
    ELSE IF result = "StageError"
    THEN [cal |-> [c EXCEPT !.state = UNINITIALIZED], raised |-> "StageError", returned |-> "none"]
    ELSE [cal |-> c, raised |-> "none", returned |-> "False"]

connect_to_stage(c, result) ==
    IF result = "True"
    THEN [cal |-> [c EXCEPT !.state = max(c.state, CONNECTED)],
          raised |-> "none", returned |-> "True"]
    ELSE IF result = "StageError"
    THEN [cal |-> [c EXCEPT !.state = UNINITIALIZED],
          raised |-> "StageError", returned |-> "none"]
    ELSE [cal |-> c, raised |-> "none", returned |-> "False"]

fix_coordinate_system_no_max(c, axes_calibration) ==
    IF ~is_axis_calibration_valid(axes_calibration)
    THEN [cal |-> c, raised |-> "ValueError", returned |-> "none"]
    ELSE LET n == Cardinality(DOMAIN axes_calibration)
         IN  [cal |-> [c EXCEPT
                  !.axes_calibration = axes_calibration,
                  !.axes_rotation_matrix =
                      rotation_items(zeros(n), axes_calibration, DOMAIN axes_calibration),
                  !.state = COORDINATE_SYSTEM_FIXED],
              raised |-> "none", returned |-> "None"]

fix_coordinate_system_store_first(c, axes_calibration) ==
    IF ~is_axis_calibration_valid(axes_calibration)
    THEN [cal |-> [c EXCEPT !.axes_calibration = axes_calibration],
          raised |-> "ValueError", returned |-> "none"]
    ELSE LET n == Cardinality(DOMAIN axes_calibration)
         IN  [cal |-> [c EXCEPT
                  !.axes_calibration = axes_calibration,
                  !.axes_rotation_matrix =
                      rotation_items(zeros(n), axes_calibration, DOMAIN axes_calibration),
                  !.state = max(c.state, COORDINATE_SYSTEM_FIXED)],
              raised |-> "none", returned |-> "None"]

fix_coordinate_system_transposed(c, axes_calibration) ==
    IF ~is_axis_calibration_valid(axes_calibration)
    THEN [cal |-> c, raised |-> "ValueError", returned |-> "none"]
    ELSE LET n == Cardinality(DOMAIN axes_calibration)
             M == rotation_items(zeros(n), axes_calibration, DOMAIN axes_calibration)
         IN  [cal |-> [c EXCEPT
                  !.axes_calibration = axes_calibration,
                  !.axes_rotation_matrix =
                      [r \in 0..(n - 1) |-> [k \in 0..(n - 1) |-> M[k][r]]],
                  !.state = max(c.state, COORDINATE_SYSTEM_FIXED)],
              raised |-> "none", returned |-> "None"]

fix_coordinate_system_no_zeros(c, axes_calibration) ==
    IF ~is_axis_calibration_valid(axes_calibration)
    THEN [cal |-> c, raised |-> "ValueError", returned |-> "none"]
    ELSE [cal |-> [c EXCEPT
              !.axes_calibration = axes_calibration,
              !.axes_rotation_matrix =
                  rotation_items(c.axes_rotation_matrix, axes_calibration,
                                 DOMAIN axes_calibration),
              !.state = max(c.state, COORDINATE_SYSTEM_FIXED)],
          raised |-> "none", returned |-> "None"]

fix_coordinate_system(c, axes_calibration) ==
    IF ~is_axis_calibration_valid(axes_calibration)
    THEN [cal |-> c, raised |-> "ValueError", returned |-> "none"]
    ELSE LET n == Cardinality(DOMAIN axes_calibration)
         IN  [cal |-> [c EXCEPT
                  !.axes_calibration = axes_calibration,
                  !.axes_rotation_matrix =
                      rotation_items(zeros(n), axes_calibration, DOMAIN axes_calibration),
                  !.state = max(c.state, COORDINATE_SYSTEM_FIXED)],
              raised |-> "none", returned |-> "None"]

fix_single_point_resets_axes(c, single_point_transformation) ==
    [cal |-> set_coordinate_system_to_default(
                 [c EXCEPT !.single_point_transformation = single_point_transformation,
                           !.state = max(c.state, SINGLE_POINT_FIXED)]),
     raised |-> "none", returned |-> "None"]

fix_single_point(c, single_point_transformation) ==
    [cal |-> [c EXCEPT !.single_point_transformation = single_point_transformation,
                       !.state = max(c.state, SINGLE_POINT_FIXED)],
     raised |-> "none", returned |-> "None"]

\* move_absolute: its body is `pass`
move_absolute(c, x, y) ==
    [cal |-> c, raised |-> "none", returned |-> "None"]

\* matrix.dot(np.array([x, y, z])) of a 3x3 matrix
matrix_dot(M, v) ==
    [r \in 0..2 |-> M[r][0] * v[1] + M[r][1] * v[2] + M[r][2] * v[3]]

\* move_relative: computes the move in stage coordinates and prints it; the
\* call of the stage's move_relative2 is commented out. `effects` lists what
\* the call does outside the Calibration, as <<name, arguments>>.
move_relative(c, x, y, z) ==
    LET stage_vector == matrix_dot(c.axes_rotation_matrix, <<x, y, z>>)
    IN  [cal |-> c, raised |-> "none", returned |-> "None",
         effects |-> <<<<"print", <<stage_vector[0], stage_vector[1], stage_vector[2]>>>>>>]

\* the default arguments of wiggle_axis and its pause in seconds
WIGGLE_DISTANCE == 1000
WIGGLE_SPEED == 1000
WIGGLE_SLEEP == 2

\* what a call does to the stage: its effects other than printing and pausing
StageCalls(effects) ==
    LET on_stage(ef) == ef[1] \notin {"print", "time.sleep"}
    IN  SelectSeq(effects, on_stage)

\* what wiggle_axis does when no stage call fails; current_speed_xy and
\* current_speed_z are what the stage's get_speed_xy and get_speed_z hand back
wiggle_axis_effects(c, axis, wiggle_distance, wiggle_speed, current_speed_xy, current_speed_z) ==
    LET there == move_relative(c,
                     IF axis = "X" THEN wiggle_distance ELSE 0,
                     IF axis = "Y" THEN wiggle_distance ELSE 0,
                     IF axis = "Z" THEN wiggle_distance ELSE 0)
        back == move_relative(there.cal,
                     IF axis = "X" THEN -wiggle_distance ELSE 0,
                     IF axis = "Y" THEN -wiggle_distance ELSE 0,
                     IF axis = "Z" THEN -wiggle_distance ELSE 0)
    IN  <<<<"stage.get_speed_xy", <<>>>>, <<"stage.get_speed_z", <<>>>>,
          <<"stage.set_speed_xy", <<wiggle_speed>>>>,
          <<"stage.set_speed_z", <<wiggle_speed>>>>>>
        \o there.effects
        \o <<<<"time.sleep", <<WIGGLE_SLEEP>>>>>>
        \o back.effects
        \o <<<<"stage.set_speed_xy", <<current_speed_xy>>>>,
             <<"stage.set_speed_z", <<current_speed_z>>>>>>

\* the place in `effects` of the k-th call of the stage
stage_call_index(effects, k) ==
    CHOOSE i \in 1..Len(effects) : /\ StageCalls(<<effects[i]>>) # <<>>
                                   /\ Len(StageCalls(SubSeq(effects, 1, i))) = k

\* wiggle_axis: fail_at = 0 where every call of the stage returns, and k
\* where the k-th call of the stage raises StageError. The method has no
\* try: the error ends it there, and `effects` ends with the call that raised.
wiggle_axis(c, axis, wiggle_distance, wiggle_speed, current_speed_xy, current_speed_z, fail_at) ==
    LET effects == wiggle_axis_effects(c, axis, wiggle_distance, wiggle_speed,
                                       current_speed_xy, current_speed_z)
    IN  IF fail_at = 0
        THEN [cal |-> c, raised |-> "none", returned |-> "None", effects |-> effects]
        ELSE [cal |-> c, raised |-> "StageError", returned |-> "none",
              effects |-> SubSeq(effects, 1, stage_call_index(effects, fail_at))]

----------------------------------------------------------------------------
(* MoverNew (LabExT/Movement/MoverNew.py) *)

SPEED_LOWER_BOUND == 0
SPEED_UPPER_BOUND == 100000
ACCELERATION_LOWER_BOUND == 0
ACCELERATION_UPPER_BOUND == 10000000
DEFAULT_SPEED_XY == 200
DEFAULT_SPEED_Z == 20
DEFAULT_ACCELERATION_XY == 0

\* MoverNew.__init__: _calibrations is a dict from orientation to Calibration,
\* kept here in its insertion order as a sequence of
\* [key, stage, cal]: the orientation key, the Calibration's stage (a stage
\* id) and the Calibration's other fields
MoverNew_init ==
    [calibrations |-> <<>>,
     speed_xy |-> DEFAULT_SPEED_XY,
     speed_z |-> DEFAULT_SPEED_Z,
     acceleration_xy |-> DEFAULT_ACCELERATION_XY]

\* a Stage object that is not connected
NewStage == [connected |-> FALSE]

\* d[key] = entry on a Python dict: replaces the value of a key already
\* present where it is, appends a new key
dict_set_append(d, key, entry) == Append(d, entry)

dict_set(d, key, entry) ==
    IF \E i \in 1..Len(d) : d[i].key = key
    THEN [i \in 1..Len(d) |-> IF d[i].key = key THEN entry ELSE d[i]]
    ELSE Append(d, entry)

\* min() of a non-empty set of numbers
min_of(values) == CHOOSE v \in values : \A w \in values : v <= w

\* MoverNew.state
MoverNew_state(m) ==
    IF Len(m.calibrations) = 0
    THEN UNINITIALIZED
    ELSE LET calibration_states ==
                 {m.calibrations[i].cal.state : i \in 1..Len(m.calibrations)}
         IN  min_of(calibration_states)

\* MoverNew.stages
Mover_stages(m) == [i \in 1..Len(m.calibrations) |-> m.calibrations[i].stage]

\* MoverNew.connected_stages
connected_stages(m, st) ==
    LET connected(s) == st[s].connected IN SelectSeq(Mover_stages(m), connected)

\* MoverNew.has_connected_stages
has_connected_stages(m, st) == Len(connected_stages(m, st)) # 0

add_stage_calibration_any_stage(m, st, stage_id, orientation, position) ==
    IF orientation \notin Orientation
    THEN [mover |-> m, raised |-> "MoverError"]
    ELSE IF position \notin DevicePosition
    THEN [mover |-> m, raised |-> "MoverError"]
    ELSE [mover |-> [m EXCEPT !.calibrations =
                        dict_set(@, orientation,
                                 [key |-> orientation, stage |-> stage_id,
                                  cal |-> Calibration_init(st[stage_id], orientation, position)])],
          raised |-> "none"]

add_stage_calibration(m, st, stage_id, orientation, position) ==
    IF orientation \notin Orientation
    THEN [mover |-> m, raised |-> "MoverError"]
    ELSE IF position \notin DevicePosition
    THEN [mover |-> m, raised |-> "MoverError"]
    ELSE IF \E i \in 1..Len(Mover_stages(m)) : Mover_stages(m)[i] = stage_id
    THEN [mover |-> m, raised |-> "MoverError"]
    ELSE [mover |-> [m EXCEPT !.calibrations =
                        dict_set(@, orientation,
                                 [key |-> orientation, stage |-> stage_id,
                                  cal |-> Calibration_init(st[stage_id], orientation, position)])],
          raised |-> "none"]

\* the loop of a setter over connected_stages: calls the stage's setter with
\* the value on each stage in turn; a stage in `rejecting` raises
\* RuntimeError, which ends the loop. `called` lists the stages whose setter
\* was called.
set_on_stages_first_only(todo, rejecting, called) ==
    IF todo = <<>>
    THEN [called |-> called, raised |-> "none"]
    ELSE IF Head(todo) \in rejecting
    THEN [called |-> Append(called, Head(todo)), raised |-> "MoverError"]
    ELSE [called |-> Append(called, Head(todo)), raised |-> "none"]

set_on_stages_visits_all(todo, rejecting, called) ==
    [called |-> called \o todo,
     raised |-> IF \E i \in 1..Len(todo) : todo[i] \in rejecting
                THEN "MoverError" ELSE "none"]

RECURSIVE set_on_stages(_, _, _)
set_on_stages(todo, rejecting, called) ==
    IF todo = <<>>
    THEN [called |-> called, raised |-> "none"]
    ELSE IF Head(todo) \in rejecting
    THEN [called |-> Append(called, Head(todo)), raised |-> "MoverError"]
    ELSE set_on_stages(Tail(todo), rejecting, Append(called, Head(todo)))

\* the body shared by the three setters, for the setting `field` with the
\* range check `out_of_range`
set_setting(m, st, field, value, out_of_range, rejecting) ==
    IF ~has_connected_stages(m, st)
    THEN [mover |-> m, stages |-> st, called |-> <<>>, raised |-> "MoverError"]
    ELSE IF out_of_range
    THEN [mover |-> m, stages |-> st, called |-> <<>>, raised |-> "ValueError"]
    ELSE LET res == set_on_stages(connected_stages(m, st), rejecting, <<>>)
         IN  [mover |-> IF res.raised = "none" THEN [m EXCEPT ![field] = value] ELSE m,
              stages |-> st, called |-> res.called, raised |-> res.raised]

speed_xy_setter_range_first(m, st, umps, rejecting) ==
    IF umps < SPEED_LOWER_BOUND \/ umps > SPEED_UPPER_BOUND
    THEN [mover |-> m, stages |-> st, called |-> <<>>, raised |-> "ValueError"]
    ELSE set_setting(m, st, "speed_xy", umps, FALSE, rejecting)

speed_xy_setter_exclusive_bounds(m, st, umps, rejecting) ==
    set_setting(m, st, "speed_xy", umps,
                umps <= SPEED_LOWER_BOUND \/ umps >= SPEED_UPPER_BOUND, rejecting)

speed_xy_setter(m, st, umps, rejecting) ==
    set_setting(m, st, "speed_xy", umps,
                umps < SPEED_LOWER_BOUND \/ umps > SPEED_UPPER_BOUND, rejecting)

speed_z_setter(m, st, umps, rejecting) ==
    set_setting(m, st, "speed_z", umps,
                umps < SPEED_LOWER_BOUND \/ umps > SPEED_UPPER_BOUND, rejecting)

acceleration_xy_setter(m, st, umps2, rejecting) ==
    set_setting(m, st, "acceleration_xy", umps2,
                umps2 < ACCELERATION_LOWER_BOUND \/ umps2 > ACCELERATION_LOWER_BOUND,
                rejecting)

\* the body shared by the three getters: _call_on_connected_stages evaluates
\* s.stage for each s of connected_stages, which are Stage objects and have
\* no attribute of that name
get_setting(m, st, field) ==
    IF ~has_connected_stages(m, st)
    THEN [mover |-> m, stages |-> st, called |-> <<>>, raised |-> "MoverError",
          returned |-> None]
    ELSE [mover |-> m, stages |-> st, called |-> <<>>, raised |-> "AttributeError",
          returned |-> None]

speed_xy_getter(m, st) == get_setting(m, st, "speed_xy")

speed_z_getter(m, st) == get_setting(m, st, "speed_z")

acceleration_xy_getter(m, st) == get_setting(m, st, "acceleration_xy")

\* is_stage_assignment_valid, on a dict kept as the sequence of its items
\* <<stage, orientation>>
is_stage_assignment_valid(assignment) ==
    IF Len(assignment) = 0
    THEN FALSE
    ELSE Len(assignment) = Cardinality({assignment[i][2] : i \in 1..Len(assignment)})

\* the first loop of MovementWizardController.save from item i on:
\* add_stage_calibration and connect_to_stage for each assigned stage;
\* `results` tells what each stage's connect() does. An error ends the loop
\* and leaves what was done before it.
RECURSIVE save_assignment(_, _, _, _, _, _)
save_assignment(m, st, stage_assignment, stage_positions, results, i) ==
    IF i > Len(stage_assignment)
    THEN [mover |-> m, stages |-> st, raised |-> "none"]
    ELSE LET stage_id == stage_assignment[i][1]
             orientation == stage_assignment[i][2]
             stage_position == IF stage_id \in DOMAIN stage_positions
                               THEN stage_positions[stage_id] ELSE "INPUT"
             added == add_stage_calibration(m, st, stage_id, orientation, stage_position)
         IN  IF added.raised # "none"
             THEN [mover |-> m, stages |-> st, raised |-> added.raised]
             ELSE LET k == CHOOSE j \in 1..Len(added.mover.calibrations) :
                               added.mover.calibrations[j].key = orientation
                      connected == connect_to_stage(added.mover.calibrations[k].cal,
                                                    results[stage_id])
                      m2 == [added.mover EXCEPT !.calibrations[k].cal = connected.cal]
                      st2 == [st EXCEPT ![stage_id] = Stage_connect(@, results[stage_id])]
                  IN  IF connected.raised # "none"
                      THEN [mover |-> m2, stages |-> st2, raised |-> connected.raised]
                      ELSE save_assignment(m2, st2, stage_assignment, stage_positions,
                                           results, i + 1)

\* MovementWizardController.save
MovementWizardController_save(m, st, stage_assignment, stage_positions, results, speed_xy, speed_z, acceleration_xy, rejecting) ==
    LET assigned == save_assignment(m, st, stage_assignment, stage_positions, results, 1)
    IN  IF assigned.raised # "none"
        THEN assigned
        ELSE LET xy == speed_xy_setter(assigned.mover, assigned.stages, speed_xy, rejecting)
             IN  IF xy.raised # "none"
                 THEN [mover |-> xy.mover, stages |-> xy.stages, raised |-> xy.raised]
                 ELSE LET z == speed_z_setter(xy.mover, xy.stages, speed_z, rejecting)
                      IN  IF z.raised # "none"
                          THEN [mover |-> z.mover, stages |-> z.stages, raised |-> z.raised]
                          ELSE LET acc == acceleration_xy_setter(z.mover, z.stages,
                                                                 acceleration_xy, rejecting)
                               IN  [mover |-> acc.mover, stages |-> acc.stages,
                                    raised |-> acc.raised]

----------------------------------------------------------------------------
(* Transformations (LabExT/Movement/Transformations.py). Coordinates are     *)
(* points of the plane, pairs of integers; a matrix is the pair of its rows. *)

\* element-wise + and - of two np.array points
vadd(u, v) == <<u[1] + v[1], u[2] + v[2]>>
vsub(u, v) == <<u[1] - v[1], u[2] - v[2]>>

\* np.dot(v, M) of a point and a matrix
dot(v, M) ==
    <<v[1] * M[1][1] + v[2] * M[2][1], v[1] * M[1][2] + v[2] * M[2][2]>>

\* SinglePointFixation.__init__
SinglePointFixation_init(chip_coordinate, stage_coordinate) ==
    [kind |-> "SinglePointFixation",
     chip_coordinate |-> chip_coordinate,
     stage_coordinate |-> stage_coordinate,
     offset |-> vsub(stage_coordinate, chip_coordinate)]

SinglePointFixation_chip_to_stage(t, chip_coordinate) ==
    vadd(chip_coordinate, t.offset)

SinglePointFixation_stage_to_chip(t, stage_coordinate) ==
    vadd(stage_coordinate, t.offset)

\* A KabschRotation made from n pairings keeps every coordinate as a
\* multiple of 1/n, so that the centroids are exact: the integer pair v
\* stands for the point v/n.
scaled(n, p) == <<n * p[1], n * p[2]>>

RECURSIVE vsum(_)
vsum(points) ==
    IF points = <<>> THEN <<0, 0>> ELSE vadd(Head(points), vsum(Tail(points)))

\* rmsd.centroid: the mean of the points, as a multiple of 1/Len(points)
centroid(points) == vsum(points)

\* np.dot(np.transpose(P), Q) of two lists of points
RECURSIVE covariance(_, _)
covariance(P, Q) ==
    IF P = <<>>
    THEN <<<<0, 0>>, <<0, 0>>>>
    ELSE LET C == covariance(Tail(P), Tail(Q))
             p == Head(P)
             q == Head(Q)
         IN  <<<<C[1][1] + p[1] * q[1], C[1][2] + p[1] * q[2]>>,
               <<C[2][1] + p[2] * q[1], C[2][2] + p[2] * q[2]>>>>

det(M) == M[1][1] * M[2][2] - M[1][2] * M[2][1]

\* the orthogonal matrices with integer entries: the four quarter turns and
\* the four reflections
OrthogonalMatrices ==
    {<<<<1, 0>>, <<0, 1>>>>, <<<<0, 1>>, <<-1, 0>>>>,
     <<<<-1, 0>>, <<0, -1>>>>, <<<<0, -1>>, <<1, 0>>>>,
     <<<<1, 0>>, <<0, -1>>>>, <<<<-1, 0>>, <<0, 1>>>>,
     <<<<0, 1>>, <<1, 0>>>>, <<<<0, -1>>, <<-1, 0>>>>}

\* the sum of squared residuals of P.U against Q falls as tr(U^T C) grows
fit(U, C) ==
    U[1][1] * C[1][1] + U[1][2] * C[1][2] + U[2][1] * C[2][1] + U[2][2] * C[2][2]

\* the least-squares fit without the correction for reflections
kabsch_unconstrained(P, Q) ==
    CHOOSE U \in OrthogonalMatrices :
        \A V \in OrthogonalMatrices : fit(U, covariance(P, Q)) >= fit(V, covariance(P, Q))

\* rmsd.kabsch: the matrix U that minimises the squared residuals of P.U
\* against Q, a reflection (det < 0) being no candidate
kabsch(P, Q) ==
    CHOOSE U \in {W \in OrthogonalMatrices : det(W) > 0} :
        \A V \in {W \in OrthogonalMatrices : det(W) > 0} :
            fit(U, covariance(P, Q)) >= fit(V, covariance(P, Q))

\* np.linalg.inv of a matrix of determinant 1 or -1
inv(M) ==
    <<<<M[2][2] * det(M), -M[1][2] * det(M)>>,
      <<-M[2][1] * det(M), M[1][1] * det(M)>>>>

\* the coordinates of a list, as multiples of 1/n, moved by -offset
centered(points, offset) ==
    [k \in 1..Len(points) |-> vsub(scaled(Len(points), points[k]), offset)]

\* KabschRotation.__init__
KabschRotation_init(chip_coordinates, stage_coordinates) ==
    LET chip_offset == centroid(chip_coordinates)
        stage_offset == centroid(stage_coordinates)
        matrix == kabsch(centered(chip_coordinates, chip_offset),
                         centered(stage_coordinates, stage_offset))
    IN  [kind |-> "KabschRotation",
         n |-> Len(chip_coordinates),
         chip_offset |-> chip_offset,
         stage_offset |-> stage_offset,
         matrix |-> matrix,
         matrix_inverse |-> inv(matrix)]

KabschRotation_chip_to_stage(t, chip_coordinate) ==
    vadd(dot(vsub(chip_coordinate, t.chip_offset), t.matrix), t.stage_offset)

KabschRotation_stage_to_chip_forward_matrix(t, stage_coordinate) ==
    vadd(dot(vsub(stage_coordinate, t.stage_offset), t.matrix), t.chip_offset)

KabschRotation_stage_to_chip(t, stage_coordinate) ==
    vadd(dot(vsub(stage_coordinate, t.stage_offset), t.matrix_inverse), t.chip_offset)

\* the calls on a Transformation of either class
chip_to_stage(t, chip_coordinate) ==
    IF t.kind = "SinglePointFixation"
    THEN SinglePointFixation_chip_to_stage(t, chip_coordinate)
    ELSE KabschRotation_chip_to_stage(t, chip_coordinate)

stage_to_chip(t, stage_coordinate) ==
    IF t.kind = "SinglePointFixation"
    THEN SinglePointFixation_stage_to_chip(t, stage_coordinate)
    ELSE KabschRotation_stage_to_chip(t, stage_coordinate)

\* a point as the Transformation t keeps it
as_kept(t, p) == IF t.kind = "KabschRotation" THEN scaled(t.n, p) ELSE p

----------------------------------------------------------------------------
(* Arguments the callers hand in *)

DirValues == (-MaxDirValue)..MaxDirValue

\* the 6 one-to-one assignments of stage axes to chip axes, with each of the
\* 8 choices of directions
SignedPermutations ==
    {[a \in Axis |-> <<p[a], IF a \in S THEN NEGATIVE ELSE POSITIVE>>] :
        p \in {q \in [Axis -> Axis] : \A a, b \in Axis : q[a] = q[b] => a = b},
        S \in SUBSET Axis}

\* dicts that target a stage axis twice
DuplicateMappings ==
    {[a \in Axis |-> <<IF a = b THEN c ELSE a, POSITIVE>>] :
        b \in Axis, c \in Axis} \ SignedPermutations

\* dicts with a chip axis missing, and the empty dict
PartialMappings ==
    {[a \in Axis \ {b} |-> <<a, POSITIVE>>] : b \in Axis} \cup {EmptyDict}

\* dicts with a direction that is no member of Direction
BadDirectionMappings ==
    {[a \in Axis |-> <<a, IF a = "Z" THEN d ELSE POSITIVE>>] :
        d \in DirValues \ Direction}

MappingInputs ==
    SignedPermutations \cup DuplicateMappings \cup PartialMappings \cup BadDirectionMappings

Transformations == 1..MaxTransformations

\* every dict over the keys X, Y, Z and a key W that is no Axis, to pairs of
\* X, Y, Z or W and a direction value
AllDicts ==
    UNION {[K -> (Axis \cup {"W"}) \X DirValues] : K \in SUBSET (Axis \cup {"W"})}

NoCall ==
    [op |-> "__init__", mapping |-> EmptyDict, transformation |-> None,
     stage_result |-> "none", raised |-> "none", returned |-> "None",
     axis |-> "none", vector |-> <<0, 0, 0>>, effects |-> <<>>,
     speeds |-> <<0, 0>>, fail_at |-> 0]

\* the speeds a stage reports to wiggle_axis
StageSpeeds == {DEFAULT_SPEED_Z, DEFAULT_SPEED_XY}

\* the chip vectors handed to move_relative
MoveVectors ==
    (-MaxCoord..MaxCoord) \X (-MaxCoord..MaxCoord) \X (-MaxCoord..MaxCoord)

\* the devices a pairing can be made for in the KabschRotationWindow
Devices == 1..NumDevices

\* chip coordinates handed to move_absolute
Coordinates == {0, 1}

StageIds == 1..NumStages

\* the (orientation, position) pairs handed to add_stage_calibration where
\* the registry is exercised; NORTH is no member of Orientation, MIDDLE is
\* no member of DevicePosition
RegistryArguments ==
    ({"LEFT", "RIGHT", "TOP"} \X DevicePosition)
        \cup {<<"NORTH", "INPUT">>, <<"LEFT", "MIDDLE">>}

\* the stages and orientations used where the settings are exercised
SettingStageIds == 1..NumSettingStages
SettingArguments == {"LEFT", "RIGHT"} \X {"INPUT"}

\* values handed to the speed setters and to the acceleration setter
SpeedInputs ==
    {SPEED_LOWER_BOUND - 1, SPEED_LOWER_BOUND, SPEED_UPPER_BOUND, SPEED_UPPER_BOUND + 1}
AccelerationInputs ==
    {ACCELERATION_LOWER_BOUND - 1, ACCELERATION_LOWER_BOUND,
     ACCELERATION_UPPER_BOUND, ACCELERATION_UPPER_BOUND + 1}

\* the stage assignments the movement wizard hands to save: the valid
\* assignments of the stages to LEFT and RIGHT, in the order of assignment
StageAssignments ==
    {a \in UNION {[1..n -> SettingStageIds \X {"LEFT", "RIGHT"}] : n \in 1..2} :
        /\ is_stage_assignment_valid(a)
        /\ \A i, j \in 1..Len(a) : i # j => a[i][1] # a[j][1]}

\* the stage positions chosen in the movement wizard: none, or OUTPUT for
\* the first stage
StagePositions == {<<>>, <<"OUTPUT">>}

\* the speeds and the acceleration entered in the movement wizard: the
\* defaults, a speed out of range, an acceleration out of range
SaveSettings ==
    {<<DEFAULT_SPEED_XY, DEFAULT_SPEED_Z, DEFAULT_ACCELERATION_XY>>,
     <<SPEED_UPPER_BOUND + 1, DEFAULT_SPEED_Z, DEFAULT_ACCELERATION_XY>>,
     <<DEFAULT_SPEED_XY, DEFAULT_SPEED_Z, ACCELERATION_LOWER_BOUND - 1>>}

NoMoverCall ==
    [op |-> "__init__", stage |-> 0, orientation |-> "none", position |-> "none",
     value |-> 0, rejecting |-> {}, raised |-> "none", called |-> <<>>]

\* no calibration wizard is open
NoWizard ==
    [step |-> "none", finished |-> FALSE,
     current_axis_calibration |-> <<>>,
     aliased |-> <<>>,
     performing_wiggle |-> FALSE,
     wiggling |-> {},
     last |-> [event |-> "none", calibration |-> 0, stage_calls |-> 0],
     current_single_point_transformations |-> <<>>,
     current_full_transformations |-> <<>>]

\* no handler of the first wizard step has run
NoEvent == [event |-> "none", calibration |-> 0, stage_calls |-> 0]

\* the wiggles started from the wizard, as <<chip axis, failing stage call>>:
\* every call of the stage returns (0), or the stage's set_speed_z of the
\* wiggle speed raises (4)
WiggleRuns == {<<"X", 0>>, <<"Y", 4>>, <<"Z", 0>>}

\* the mappings handed to save_coordinate_system_fixation: the default one,
\* X and Y exchanged, Z reversed, X reversed, and the invalid one that puts
\* the chip axes X and Y both on the stage axis X
GivenMappings ==
    {[a \in Axis |-> <<a, POSITIVE>>],
     [a \in Axis |-> <<IF a = "X" THEN "Y" ELSE IF a = "Y" THEN "X" ELSE a, POSITIVE>>],
     [a \in Axis |-> <<a, IF a = "Z" THEN NEGATIVE ELSE POSITIVE>>],
     [a \in Axis |-> <<a, IF a = "X" THEN NEGATIVE ELSE POSITIVE>>],
     [a \in Axis |-> <<IF a = "Y" THEN "X" ELSE a, POSITIVE>>]}

\* the choices made in the option menus of the first wizard step, as
\* <<chip axis, <<stage axis, direction>>>>: the chip axis Y is put on the
\* stage axis X, or back on the stage axis Y
AxisEdits == {<<"Y", <<"X", POSITIVE>>>>, <<"Y", <<"Y", POSITIVE>>>>}

\* no transformation is being made
NoTransformation == [phase |-> "none"]

\* no KabschRotationWindow is open
NoWindow == [phase |-> "none"]

\* no StageStatusWidget exists
NoWidget == [job |-> "no widget"]

\* what stage.get_status() can hand back: a status for each of the three
\* channels
StatusTuples == [1..3 -> 1..NumStatusValues]

\* the points handed to a SinglePointFixation and the points converted
Points == (-MaxCoord..MaxCoord) \X (-MaxCoord..MaxCoord)

\* the chip coordinates of the devices paired for a KabschRotation
ChipPoints == (0..MaxChipCoord) \X (0..MaxChipCoord)

\* the lists of 2..MaxPairings different chip coordinates, in one order each
ChipLists ==
    {c \in UNION {[1..n -> ChipPoints] : n \in 2..MaxPairings} :
        \A i, j \in DOMAIN c :
            i < j => \/ c[i][1] < c[j][1]
                     \/ c[i][1] = c[j][1] /\ c[i][2] < c[j][2]}

\* by how far the stage coordinates are moved against the chip coordinates
Translations == {<<0, 0>>, <<1, -1>>}

\* the best proper rotation of the pairings is a multiple of a quarter
\* turn: with C their covariance, one of C11 + C22 and C12 - C21 is 0 and
\* the other is not
ExactFit(chip_coordinates, stage_coordinates) ==
    LET C == covariance(centered(chip_coordinates, centroid(chip_coordinates)),
                        centered(stage_coordinates, centroid(stage_coordinates)))
    IN  (C[1][1] + C[2][2] = 0) # (C[1][2] - C[2][1] = 0)

\* the pairings handed to a KabschRotation: the stage coordinates are the
\* chip coordinates turned or mirrored, and moved
KabschArguments ==
    {a \in {[chip_coordinates |-> c,
             stage_coordinates |-> [k \in DOMAIN c |-> vadd(dot(c[k], G), t)]] :
                c \in ChipLists, G \in OrthogonalMatrices, t \in Translations} :
        ExactFit(a.chip_coordinates, a.stage_coordinates)}

SinglePointArguments ==
    [chip_coordinate : Points, stage_coordinate : Points]

\* what SinglePointFixation.setup and KabschRotation.setup hand back: a new
\* transformation, or None when the user gave no pairing
SetupResults == Transformations \cup {None}

\* the orientation of the i-th Calibration of a Mover the wizard is opened on
WizardOrientations == <<"LEFT", "RIGHT", "TOP", "BOTTOM">>

----------------------------------------------------------------------------
(* The Calibration state machine *)

Init ==
    /\ stage \in [connected : BOOLEAN]
    /\ cal = Calibration_init(stage, "LEFT", "INPUT")
    /\ call = NoCall
    /\ max_reached = cal.state
    /\ vin = EmptyDict
    /\ vout = FALSE
    /\ vdone = FALSE
    /\ mover = MoverNew_init
    /\ stages = [s \in StageIds |-> NewStage]
    /\ mcall = NoMoverCall
    /\ wizard = NoWizard
    /\ trans = NoTransformation
    /\ window = NoWindow
    /\ widget = NoWidget

ConnectToStage ==
    \E result \in StageConnectResults :
        LET res == connect_to_stage(cal, result)
        IN  /\ cal' = res.cal
            /\ stage' = Stage_connect(stage, result)
            /\ call' = [NoCall EXCEPT !.op = "connect_to_stage",
                                      !.stage_result = result,
                                      !.raised = res.raised,
                                      !.returned = res.returned]
            /\ max_reached' = max(max_reached, res.cal.state)
            /\ UNCHANGED <<vin, vout, vdone, otherVars>>

FixCoordinateSystem ==
    \E m \in MappingInputs :
        LET res == fix_coordinate_system(cal, m)
        IN  /\ cal' = res.cal
            /\ call' = [NoCall EXCEPT !.op = "fix_coordinate_system",
                                      !.mapping = m,
                                      !.raised = res.raised,
                                      !.returned = res.returned]
            /\ max_reached' = max(max_reached, res.cal.state)
            /\ UNCHANGED <<stage, vin, vout, vdone, otherVars>>

SetCoordinateSystemToDefault ==
    /\ cal' = set_coordinate_system_to_default(cal)
    /\ call' = [NoCall EXCEPT !.op = "set_coordinate_system_to_default"]
    /\ max_reached' = max(max_reached, cal'.state)
    /\ UNCHANGED <<stage, vin, vout, vdone, otherVars>>

FixSinglePoint ==
    \E t \in Transformations \cup {None} :
        LET res == fix_single_point(cal, t)
        IN  /\ cal' = res.cal
            /\ call' = [NoCall EXCEPT !.op = "fix_single_point",
                                      !.transformation = t,
                                      !.raised = res.raised,
                                      !.returned = res.returned]
            /\ max_reached' = max(max_reached, res.cal.state)
            /\ UNCHANGED <<stage, vin, vout, vdone, otherVars>>

MoveAbsolute ==
    \E x \in Coordinates, y \in Coordinates :
        LET res == move_absolute(cal, x, y)
        IN  /\ cal' = res.cal
            /\ call' = [NoCall EXCEPT !.op = "move_absolute",
                                      !.raised = res.raised,
                                      !.returned = res.returned]
            /\ max_reached' = max(max_reached, res.cal.state)
            /\ UNCHANGED <<stage, vin, vout, vdone, otherVars>>

Next ==
    \/ ConnectToStage
    \/ FixCoordinateSystem
    \/ SetCoordinateSystemToDefault
    \/ FixSinglePoint
    \/ MoveAbsolute

Spec == Init /\ [][Next]_vars

----------------------------------------------------------------------------
(* is_axis_calibration_valid applied to any dict *)

InitValid ==
    /\ stage = [connected |-> FALSE]
    /\ cal = Calibration_init(stage, "LEFT", "INPUT")
    /\ call = NoCall
    /\ max_reached = cal.state
    /\ vin \in AllDicts
    /\ vout = FALSE
    /\ vdone = FALSE
    /\ mover = MoverNew_init
    /\ stages = [s \in StageIds |-> NewStage]
    /\ mcall = NoMoverCall
    /\ wizard = NoWizard
    /\ trans = NoTransformation
    /\ window = NoWindow
    /\ widget = NoWidget

Validate ==
    /\ ~vdone
    /\ vout' = is_axis_calibration_valid(vin)
    /\ vdone' = TRUE
    /\ UNCHANGED <<cal, stage, call, max_reached, vin, otherVars>>

NextValid == Validate

SpecValid == InitValid /\ [][NextValid]_vars

----------------------------------------------------------------------------
(* The Mover's registry: add_stage_calibration *)

\* the variables of the single Calibration, of is_axis_calibration_valid and
\* of the transformations
calVars == <<cal, stage, call, max_reached, vin, vout, vdone, trans, window, widget>>

InitMover ==
    /\ stage = [connected |-> FALSE]
    /\ cal = Calibration_init(stage, "LEFT", "INPUT")
    /\ call = NoCall
    /\ max_reached = cal.state
    /\ vin = EmptyDict
    /\ vout = FALSE
    /\ vdone = FALSE
    /\ mover = MoverNew_init
    /\ stages = [s \in StageIds |-> NewStage]
    /\ mcall = NoMoverCall
    /\ wizard = NoWizard
    /\ trans = NoTransformation
    /\ window = NoWindow
    /\ widget = NoWidget

AddStageCalibration(stage_ids, arguments) ==
    \E stage_id \in stage_ids, argument \in arguments :
        LET orientation == argument[1]
            position == argument[2]
            res == add_stage_calibration(mover, stages, stage_id, orientation, position)
        IN  /\ mover' = res.mover
            /\ mcall' = [NoMoverCall EXCEPT !.op = "add_stage_calibration",
                                            !.stage = stage_id,
                                            !.orientation = orientation,
                                            !.position = position,
                                            !.raised = res.raised]
            /\ UNCHANGED <<stages, wizard, calVars>>

NextRegistry == AddStageCalibration(StageIds, RegistryArguments)

SpecRegistry == InitMover /\ [][NextRegistry]_vars

----------------------------------------------------------------------------
(* The Mover's shared settings *)

\* calibration.connect_to_stage() on a registered Calibration
ConnectStage ==
    \E i \in 1..Len(mover.calibrations), result \in StageConnectResults :
        LET entry == mover.calibrations[i]
            res == connect_to_stage(entry.cal, result)
        IN  /\ mover' = [mover EXCEPT !.calibrations[i].cal = res.cal]
            /\ stages' = [stages EXCEPT ![entry.stage] = Stage_connect(@, result)]
            /\ mcall' = [NoMoverCall EXCEPT !.op = "connect_to_stage",
                                            !.stage = entry.stage,
                                            !.raised = res.raised]
            /\ UNCHANGED <<wizard, calVars>>

\* the outcome of a setter or getter call becomes the state
SettingCall(op, value, rejecting, res) ==
    /\ mover' = res.mover
    /\ stages' = res.stages
    /\ mcall' = [NoMoverCall EXCEPT !.op = op, !.value = value,
                                    !.rejecting = rejecting,
                                    !.raised = res.raised, !.called = res.called]
    /\ UNCHANGED <<wizard, calVars>>

\* the sets of connected stages that may reject a value: a stage that is not
\* connected is never asked
Rejecting ==
    SUBSET {connected_stages(mover, stages)[i] :
                i \in 1..Len(connected_stages(mover, stages))}

SetSpeedXY ==
    \E umps \in SpeedInputs, rejecting \in Rejecting :
        SettingCall("speed_xy.setter", umps, rejecting, speed_xy_setter(mover, stages, umps, rejecting))

SetSpeedZ ==
    \E umps \in SpeedInputs, rejecting \in Rejecting :
        SettingCall("speed_z.setter", umps, rejecting, speed_z_setter(mover, stages, umps, rejecting))

SetAccelerationXY ==
    \E umps2 \in AccelerationInputs, rejecting \in Rejecting :
        SettingCall("acceleration_xy.setter", umps2, rejecting,
                    acceleration_xy_setter(mover, stages, umps2, rejecting))

GetSpeedXY == SettingCall("speed_xy.getter", 0, {}, speed_xy_getter(mover, stages))

GetSpeedZ == SettingCall("speed_z.getter", 0, {}, speed_z_getter(mover, stages))

GetAccelerationXY ==
    SettingCall("acceleration_xy.getter", 0, {}, acceleration_xy_getter(mover, stages))

NextSettings ==
    \/ AddStageCalibration(SettingStageIds, SettingArguments)
    \/ ConnectStage
    \/ SetSpeedXY
    \/ SetSpeedZ
    \/ SetAccelerationXY
    \/ GetSpeedXY
    \/ GetSpeedZ
    \/ GetAccelerationXY

SpecSettings == InitMover /\ [][NextSettings]_vars

----------------------------------------------------------------------------
(* The movement wizard: MovementWizardController.save *)

Save ==
    \E stage_assignment \in StageAssignments, stage_positions \in StagePositions,
       results \in [SettingStageIds -> StageConnectResults],
       settings \in SaveSettings, rejecting \in SUBSET SettingStageIds :
        LET res == MovementWizardController_save(mover, stages, stage_assignment,
                       stage_positions, results,
                       settings[1], settings[2], settings[3], rejecting)
        IN  /\ mover' = res.mover
            /\ stages' = res.stages
            /\ mcall' = [NoMoverCall EXCEPT !.op = "save", !.raised = res.raised]
            /\ UNCHANGED <<wizard, calVars>>

NextSave == Save

SpecSave == InitMover /\ [][NextSave]_vars

----------------------------------------------------------------------------
(* The stage calibration wizard *)

\* fix_coordinate_system keeps the dict it is given, not a copy: after
\* calibration.fix_coordinate_system(self._current_axis_calibration[calibration])
\* the Calibration's _axes_calibration and the wizard's pending dict are one
\* object. aliased[i] tells that this holds for the i-th Calibration;
\* set_coordinate_system_to_default makes a new dict and ends it.

\* StageCalibrationController.save_coordinate_system_fixation over the
\* calibrations from index i on: fixes the pending mapping of each; the first
\* failure puts that Calibration back to the default and ends the loop
RECURSIVE save_coordinate_system_fixation(_, _, _, _)
save_coordinate_system_fixation(calibrations, axes_calibration, aliased, i) ==
    IF i > Len(calibrations)
    THEN [calibrations |-> calibrations, aliased |-> aliased, returned |-> TRUE]
    ELSE LET res == fix_coordinate_system(calibrations[i].cal, axes_calibration[i])
         IN  IF res.raised # "none"
             THEN [calibrations |->
                       [calibrations EXCEPT ![i].cal =
                           set_coordinate_system_to_default(calibrations[i].cal)],
                   aliased |-> [aliased EXCEPT ![i] = FALSE],
                   returned |-> FALSE]
             ELSE save_coordinate_system_fixation(
                      [calibrations EXCEPT ![i].cal = res.cal], axes_calibration,
                      [aliased EXCEPT ![i] = TRUE], i + 1)

\* StageCalibrationController.save_single_point_calibration: fixes every
\* transformation the pending dict holds
save_single_point_calibration(calibrations, single_point_transformations) ==
    [calibrations |->
        [i \in 1..Len(calibrations) |->
            IF single_point_transformations[i] # None
            THEN [calibrations[i] EXCEPT
                     !.cal = fix_single_point(@, single_point_transformations[i]).cal]
            ELSE calibrations[i]],
     returned |-> TRUE]

\* StageCalibrationView._save, the wizard's on_finish: its body is `pass`
StageCalibrationView_save(calibrations, w) == calibrations

\* StageCalibrationView.__init__ on a Mover with these calibrations
StageCalibrationView_init(calibrations) ==
    [step |-> "fix_coordinate_system", finished |-> FALSE,
     current_axis_calibration |->
         [i \in 1..Len(calibrations) |-> calibrations[i].cal.axes_calibration],
     aliased |-> [i \in 1..Len(calibrations) |-> FALSE],
     performing_wiggle |-> FALSE,
     wiggling |-> {},
     last |-> NoEvent,
     current_single_point_transformations |-> [i \in 1..Len(calibrations) |-> None],
     current_full_transformations |-> [i \in 1..Len(calibrations) |-> None]]

\* the Movers the wizard is opened on: n stages registered, each connected or not
WizardCalibrations(connected) ==
    [i \in 1..Len(connected) |->
        [key |-> WizardOrientations[i], stage |-> i,
         cal |-> Calibration_init([connected |-> connected[i]],
                                  WizardOrientations[i], "INPUT")]]

InitWizard ==
    /\ stage = [connected |-> FALSE]
    /\ cal = Calibration_init(stage, "LEFT", "INPUT")
    /\ call = NoCall
    /\ max_reached = cal.state
    /\ vin = EmptyDict
    /\ vout = FALSE
    /\ vdone = FALSE
    /\ mcall = NoMoverCall
    /\ \E n \in 1..NumWizardCalibrations :
         \E connected \in [1..n -> BOOLEAN] :
            /\ stages = [s \in StageIds |->
                            [connected |-> IF s <= n THEN connected[s] ELSE FALSE]]
            /\ mover = [MoverNew_init EXCEPT !.calibrations = WizardCalibrations(connected)]
            /\ wizard = StageCalibrationView_init(WizardCalibrations(connected))
    /\ trans = NoTransformation
    /\ window = NoWindow
    /\ widget = NoWidget

\* _on_axis_calibrate: the option menu of chip_axis of the i-th Calibration
\* is put on axis_mapping. The entry is written into the pending dict, which
\* is the Calibration's own dict where aliased[i] holds.
on_axis_calibrate(calibrations, w, i, chip_axis, axis_mapping) ==
    LET axis_calibration ==
            [a \in DOMAIN w.current_axis_calibration[i] \cup {chip_axis} |->
                IF a = chip_axis THEN axis_mapping ELSE w.current_axis_calibration[i][a]]
    IN  [calibrations |->
             IF w.aliased[i]
             THEN [calibrations EXCEPT ![i].cal.axes_calibration = axis_calibration]
             ELSE calibrations,
         wizard |-> [w EXCEPT !.current_axis_calibration[i] = axis_calibration]]

on_wiggle_axis_request_no_guard(calibrations, w, i, ok) ==
    IF ~ok
    THEN [calibrations |-> calibrations, wizard |-> w, outcome |-> "cancelled",
          stage_calls |-> 0]
    ELSE LET res == fix_coordinate_system(calibrations[i].cal,
                                          w.current_axis_calibration[i])
         IN  IF res.raised # "none"
             THEN [calibrations |-> calibrations,
                   wizard |-> [w EXCEPT !.performing_wiggle = FALSE],
                   outcome |-> "error", stage_calls |-> 0]
             ELSE [calibrations |-> [calibrations EXCEPT ![i].cal = res.cal],
                   wizard |-> [w EXCEPT !.aliased[i] = TRUE,
                                        !.performing_wiggle = TRUE,
                                        !.wiggling = @ \cup {i}],
                   outcome |-> "started", stage_calls |-> 0]

\* _on_wiggle_axis up to the start of calibration.wiggle_axis: the guard on
\* _performing_wiggle, the question to the user (answer `ok`), the
\* fix_coordinate_system of the pending mapping, the setting of the flag.
\* An error of fix_coordinate_system is shown and the flag is cleared. No
\* method of the stage is called up to here.
on_wiggle_axis_request(calibrations, w, i, ok) ==
    IF w.performing_wiggle
    THEN [calibrations |-> calibrations, wizard |-> w, outcome |-> "rejected",
          stage_calls |-> 0]
    ELSE IF ~ok
    THEN [calibrations |-> calibrations, wizard |-> w, outcome |-> "cancelled",
          stage_calls |-> 0]
    ELSE LET res == fix_coordinate_system(calibrations[i].cal,
                                          w.current_axis_calibration[i])
         IN  IF res.raised # "none"
             THEN [calibrations |-> calibrations,
                   wizard |-> [w EXCEPT !.performing_wiggle = FALSE],
                   outcome |-> "error", stage_calls |-> 0]
             ELSE [calibrations |-> [calibrations EXCEPT ![i].cal = res.cal],
                   wizard |-> [w EXCEPT !.aliased[i] = TRUE,
                                        !.performing_wiggle = TRUE,
                                        !.wiggling = @ \cup {i}],
                   outcome |-> "started", stage_calls |-> 0]

\* the rest of _on_wiggle_axis: calibration.wiggle_axis(chip_axis) returns
\* or raises, an error is shown, and `finally` clears the flag
on_wiggle_axis_end(calibrations, w, i, chip_axis, current_speed_xy, current_speed_z, fail_at) ==
    LET res == wiggle_axis(calibrations[i].cal, chip_axis, WIGGLE_DISTANCE, WIGGLE_SPEED,
                           current_speed_xy, current_speed_z, fail_at)
    IN  [calibrations |-> [calibrations EXCEPT ![i].cal = res.cal],
         wizard |-> [w EXCEPT !.performing_wiggle = FALSE,
                              !.wiggling = @ \ {i}],
         outcome |-> IF res.raised = "none" THEN "completed" ELSE "failed",
         stage_calls |-> Len(StageCalls(res.effects))]

\* _check_axis_calibration: the gate of the first step's Next button
check_axis_calibration(w) ==
    \A i \in DOMAIN w.current_axis_calibration :
        is_axis_calibration_valid(w.current_axis_calibration[i])

check_single_point_transformations_always(w) == TRUE

\* _check_single_point_transformations: the gate of the second step's Next
check_single_point_transformations(w) ==
    \A i \in DOMAIN w.current_single_point_transformations :
        w.current_single_point_transformations[i] # None

\* Next on the step "Fix Coordinate System"
FixCoordinateSystemStepNext ==
    /\ wizard.step = "fix_coordinate_system"
    /\ ~wizard.finished
    /\ check_axis_calibration(wizard)
    /\ LET res == save_coordinate_system_fixation(mover.calibrations,
                      wizard.current_axis_calibration, wizard.aliased, 1)
       IN  /\ mover' = [mover EXCEPT !.calibrations = res.calibrations]
           /\ wizard' = [wizard EXCEPT !.step = IF res.returned THEN "fix_single_point"
                                                ELSE @,
                                       !.aliased = res.aliased]
    /\ UNCHANGED <<stages, mcall, calVars>>

\* Next on the step "Fix Single Point"
FixSinglePointStepNext ==
    /\ wizard.step = "fix_single_point"
    /\ ~wizard.finished
    /\ check_single_point_transformations(wizard)
    /\ LET res == save_single_point_calibration(mover.calibrations,
                      wizard.current_single_point_transformations)
       IN  /\ mover' = [mover EXCEPT !.calibrations = res.calibrations]
           /\ wizard' = [wizard EXCEPT !.step = IF res.returned THEN "fully_calibrate"
                                                ELSE @]
    /\ UNCHANGED <<stages, mcall, calVars>>

\* a choice in an option menu of the first step; `traced` tells whether the
\* event is recorded in wizard.last
OnAxisCalibrate(traced) ==
    /\ wizard.step = "fix_coordinate_system"
    /\ ~wizard.finished
    /\ \E i \in 1..Len(mover.calibrations), edit \in AxisEdits :
         LET res == on_axis_calibrate(mover.calibrations, wizard, i, edit[1], edit[2])
         IN  /\ mover' = [mover EXCEPT !.calibrations = res.calibrations]
             /\ wizard' = [res.wizard EXCEPT !.last =
                               IF traced
                               THEN [event |-> "axis_calibrate", calibration |-> i,
                                     stage_calls |-> 0]
                               ELSE @]
    /\ UNCHANGED <<stages, mcall, calVars>>

\* the button "Wiggle" of a chip axis of the i-th Calibration, which is
\* enabled while the pending mapping of that Calibration is valid; the
\* handler from the click to its end
OnWiggleAxis ==
    /\ wizard.step = "fix_coordinate_system"
    /\ ~wizard.finished
    /\ \E i \in 1..Len(mover.calibrations), ok \in BOOLEAN :
         /\ is_axis_calibration_valid(wizard.current_axis_calibration[i])
         /\ LET request == on_wiggle_axis_request(mover.calibrations, wizard, i, ok)
            IN  \E run \in WiggleRuns :
                    LET res == IF request.outcome = "started"
                               THEN on_wiggle_axis_end(request.calibrations,
                                        request.wizard, i, run[1],
                                        DEFAULT_SPEED_XY, DEFAULT_SPEED_Z, run[2])
                               ELSE request
                    IN  /\ mover' = [mover EXCEPT !.calibrations = res.calibrations]
                        /\ wizard' = res.wizard
    /\ UNCHANGED <<stages, mcall, calVars>>

\* save_coordinate_system_fixation called with a dict of its own, holding
\* one of GivenMappings for each registered Calibration. A Calibration that
\* was fixed keeps that dict, which is not the wizard's pending one.
SaveCoordinateSystemFixation ==
    /\ wizard.step = "fix_coordinate_system"
    /\ \E axes_calibration \in [1..Len(mover.calibrations) -> GivenMappings] :
         LET res == save_coordinate_system_fixation(mover.calibrations,
                        axes_calibration, wizard.aliased, 1)
             invalid == {i \in DOMAIN axes_calibration :
                            ~is_axis_calibration_valid(axes_calibration[i])}
         IN  /\ mover' = [mover EXCEPT !.calibrations = res.calibrations]
             /\ wizard' = [wizard EXCEPT
                    !.aliased = [i \in DOMAIN @ |->
                                    IF res.returned \/ i <= min_of(invalid)
                                    THEN FALSE ELSE @[i]],
                    !.last = [event |-> IF res.returned THEN "saved" ELSE "refused",
                              calibration |-> IF res.returned THEN 0
                                              ELSE min_of(invalid),
                              stage_calls |-> 0]]
    /\ UNCHANGED <<stages, mcall, calVars>>

NextController == SaveCoordinateSystemFixation

SpecController == InitWizard /\ [][NextController]_vars

\* a click on "Wiggle" handled up to the start of the wiggle
OnWiggleAxisRequest ==
    /\ wizard.step = "fix_coordinate_system"
    /\ ~wizard.finished
    /\ \E i \in 1..Len(mover.calibrations), ok \in BOOLEAN :
         /\ is_axis_calibration_valid(wizard.current_axis_calibration[i])
         /\ LET res == on_wiggle_axis_request(mover.calibrations, wizard, i, ok)
            IN  /\ mover' = [mover EXCEPT !.calibrations = res.calibrations]
                /\ wizard' = [res.wizard EXCEPT !.last =
                                  [event |-> res.outcome, calibration |-> i,
                                   stage_calls |-> res.stage_calls]]
    /\ UNCHANGED <<stages, mcall, calVars>>

\* the wiggle of the i-th Calibration, started before, returns or raises
\* and the handler that started it runs to its end
WiggleEnds ==
    /\ \E i \in wizard.wiggling, run \in WiggleRuns :
         LET res == on_wiggle_axis_end(mover.calibrations, wizard, i, run[1],
                                       DEFAULT_SPEED_XY, DEFAULT_SPEED_Z, run[2])
         IN  /\ mover' = [mover EXCEPT !.calibrations = res.calibrations]
             /\ wizard' = [res.wizard EXCEPT !.last =
                               [event |-> res.outcome, calibration |-> i,
                                stage_calls |-> res.stage_calls]]
    /\ UNCHANGED <<stages, mcall, calVars>>

\* the first wizard step while the window keeps handling events during a
\* wiggle: option changes and clicks on "Wiggle" arrive at any time
NextWiggle ==
    \/ OnAxisCalibrate(TRUE)
    \/ OnWiggleAxisRequest
    \/ WiggleEnds

SpecWiggle == InitWizard /\ [][NextWiggle]_vars

\* Previous on the second and on the third step
PreviousStep ==
    /\ wizard.step \in {"fix_single_point", "fully_calibrate"}
    /\ ~wizard.finished
    /\ wizard' = [wizard EXCEPT !.step = IF @ = "fully_calibrate" THEN "fix_single_point"
                                         ELSE "fix_coordinate_system"]
    /\ UNCHANGED <<mover, stages, mcall, calVars>>

\* the body shared by _on_new_single_point_transformation and
\* _on_new_full_transformation on the pending dict `current`: `replace` is
\* the user's answer to the question asked when an entry exists,
\* `new_transformation` is what setup hands back
on_new_transformation(current, i, replace, new_transformation) ==
    IF current[i] # None /\ ~replace
    THEN current
    ELSE IF new_transformation # None
    THEN [current EXCEPT ![i] = new_transformation]
    ELSE current

OnNewSinglePointTransformation ==
    /\ wizard.step = "fix_single_point"
    /\ ~wizard.finished
    /\ \E i \in 1..Len(mover.calibrations), replace \in BOOLEAN,
          new_transformation \in SetupResults :
         wizard' = [wizard EXCEPT !.current_single_point_transformations =
                       on_new_transformation(@, i, replace, new_transformation)]
    /\ UNCHANGED <<mover, stages, mcall, calVars>>

OnNewFullTransformation ==
    /\ wizard.step = "fully_calibrate"
    /\ ~wizard.finished
    /\ \E i \in 1..Len(mover.calibrations), replace \in BOOLEAN,
          new_transformation \in SetupResults :
         wizard' = [wizard EXCEPT !.current_full_transformations =
                       on_new_transformation(@, i, replace, new_transformation)]
    /\ UNCHANGED <<mover, stages, mcall, calVars>>

\* "Finish and Save" on the step "Fully calibrate"
Finish ==
    /\ wizard.step = "fully_calibrate"
    /\ ~wizard.finished
    /\ mover' = [mover EXCEPT !.calibrations = StageCalibrationView_save(@, wizard)]
    /\ wizard' = [wizard EXCEPT !.finished = TRUE]
    /\ UNCHANGED <<stages, mcall, calVars>>

NextWizard ==
    \/ OnAxisCalibrate(FALSE)
    \/ OnWiggleAxis
    \/ FixCoordinateSystemStepNext
    \/ FixSinglePointStepNext
    \/ PreviousStep
    \/ OnNewSinglePointTransformation
    \/ OnNewFullTransformation
    \/ Finish

SpecWizard == InitWizard /\ [][NextWizard]_vars

----------------------------------------------------------------------------
(* Making a Transformation and converting a point with it *)

InitTransform ==
    /\ stage = [connected |-> FALSE]
    /\ cal = Calibration_init(stage, "LEFT", "INPUT")
    /\ call = NoCall
    /\ max_reached = cal.state
    /\ vin = EmptyDict
    /\ vout = FALSE
    /\ vdone = FALSE
    /\ mover = MoverNew_init
    /\ stages = [s \in StageIds |-> NewStage]
    /\ mcall = NoMoverCall
    /\ wizard = NoWizard
    /\ window = NoWindow
    /\ widget = NoWidget
    /\ \E arguments \in SinglePointArguments \cup KabschArguments, point \in Points :
         trans = [phase |-> "arguments",
                  arguments |-> arguments,
                  point |-> point,
                  object |-> [kind |-> "none"],
                  chip_to_stage |-> <<0, 0>>,
                  stage_to_chip |-> <<0, 0>>,
                  there_and_back |-> <<0, 0>>,
                  back_and_there |-> <<0, 0>>]

transOthers == <<cal, stage, call, max_reached, vin, vout, vdone,
                 mover, stages, mcall, wizard, window, widget>>

NewSinglePointFixation ==
    /\ trans.phase = "arguments"
    /\ trans.arguments \in SinglePointArguments
    /\ trans' = [trans EXCEPT
                    !.phase = "made",
                    !.object = SinglePointFixation_init(trans.arguments.chip_coordinate,
                                                        trans.arguments.stage_coordinate)]
    /\ UNCHANGED transOthers

NewKabschRotation ==
    /\ trans.phase = "arguments"
    /\ trans.arguments \in KabschArguments
    /\ trans' = [trans EXCEPT
                    !.phase = "made",
                    !.object = KabschRotation_init(trans.arguments.chip_coordinates,
                                                   trans.arguments.stage_coordinates)]
    /\ UNCHANGED transOthers

\* both conversions of the point, and each conversion of the other's result
Convert ==
    /\ trans.phase = "made"
    /\ LET t == trans.object
           p == as_kept(t, trans.point)
       IN  trans' = [trans EXCEPT
                        !.phase = "converted",
                        !.chip_to_stage = chip_to_stage(t, p),
                        !.stage_to_chip = stage_to_chip(t, p),
                        !.there_and_back = stage_to_chip(t, chip_to_stage(t, p)),
                        !.back_and_there = chip_to_stage(t, stage_to_chip(t, p))]
    /\ UNCHANGED transOthers

NextTransform ==
    \/ NewSinglePointFixation
    \/ NewKabschRotation
    \/ Convert

SpecTransform == InitTransform /\ [][NextTransform]_vars

----------------------------------------------------------------------------
(* Moving a stage whose coordinate system is fixed *)

\* a Calibration whose coordinate system was fixed to some valid mapping, or
\* was left at the default
InitMove ==
    /\ stage \in [connected : BOOLEAN]
    /\ \/ cal = Calibration_init(stage, "LEFT", "INPUT")
       \/ \E mapping \in SignedPermutations :
             cal = fix_coordinate_system(Calibration_init(stage, "LEFT", "INPUT"),
                                         mapping).cal
    /\ call = NoCall
    /\ max_reached = cal.state
    /\ vin = EmptyDict
    /\ vout = FALSE
    /\ vdone = FALSE
    /\ mover = MoverNew_init
    /\ stages = [s \in StageIds |-> NewStage]
    /\ mcall = NoMoverCall
    /\ wizard = NoWizard
    /\ trans = NoTransformation
    /\ window = NoWindow
    /\ widget = NoWidget

MoveRelative ==
    \E v \in MoveVectors :
        LET res == move_relative(cal, v[1], v[2], v[3])
        IN  /\ cal' = res.cal
            /\ call' = [NoCall EXCEPT !.op = "move_relative",
                                      !.vector = v,
                                      !.raised = res.raised,
                                      !.returned = res.returned,
                                      !.effects = res.effects]
            /\ UNCHANGED <<stage, max_reached, vin, vout, vdone, otherVars>>

WiggleAxis ==
    \E axis \in Axis, current_speed_xy \in StageSpeeds, current_speed_z \in StageSpeeds :
        \E fail_at \in 0..Len(StageCalls(wiggle_axis_effects(cal, axis, WIGGLE_DISTANCE,
                                  WIGGLE_SPEED, current_speed_xy, current_speed_z))) :
            LET res == wiggle_axis(cal, axis, WIGGLE_DISTANCE, WIGGLE_SPEED,
                                   current_speed_xy, current_speed_z, fail_at)
            IN  /\ cal' = res.cal
                /\ call' = [NoCall EXCEPT !.op = "wiggle_axis",
                                          !.axis = axis,
                                          !.speeds = <<current_speed_xy, current_speed_z>>,
                                          !.fail_at = fail_at,
                                          !.raised = res.raised,
                                          !.returned = res.returned,
                                          !.effects = res.effects]
                /\ UNCHANGED <<stage, max_reached, vin, vout, vdone, otherVars>>

NextMove ==
    \/ MoveRelative
    \/ WiggleAxis

SpecMove == InitMove /\ [][NextMove]_vars

----------------------------------------------------------------------------
(* KabschRotation.setup and the KabschRotationWindow it opens *)

\* KabschRotationWindow.__init__
KabschRotationWindow_init ==
    [phase |-> "open", pairings |-> <<>>, is_2d_transformation |-> FALSE,
     made |-> FALSE]

InitWindow ==
    /\ stage = [connected |-> FALSE]
    /\ cal = Calibration_init(stage, "LEFT", "INPUT")
    /\ call = NoCall
    /\ max_reached = cal.state
    /\ vin = EmptyDict
    /\ vout = FALSE
    /\ vdone = FALSE
    /\ mover = MoverNew_init
    /\ stages = [s \in StageIds |-> NewStage]
    /\ mcall = NoMoverCall
    /\ wizard = NoWizard
    /\ trans = NoTransformation
    /\ window = KabschRotationWindow_init
    /\ widget = NoWidget

windowOthers == <<cal, stage, call, max_reached, vin, vout, vdone,
                  mover, stages, mcall, wizard, trans, widget>>

\* _on_new_pairing: `pairing` is the device of the pairing the
\* CoordinatePairingWindow hands back, or None
on_new_pairing(w, pairing) ==
    IF pairing = None
    THEN w
    ELSE IF \E i \in 1..Len(w.pairings) : w.pairings[i] = pairing
    THEN w
    ELSE [w EXCEPT !.pairings = Append(@, pairing)]

\* _on_delete_marked_pairings: `selected_idx` is the row marked in the
\* table, counted from 0, or None where no row is marked
on_delete_marked_pairings(w, marked, selected_idx) ==
    IF ~marked
    THEN w
    ELSE IF selected_idx + 1 \in 1..Len(w.pairings)
    THEN [w EXCEPT !.pairings =
             SubSeq(@, 1, selected_idx) \o SubSeq(@, selected_idx + 2, Len(@))]
    ELSE w

\* _on_finish
on_finish(w) ==
    IF ~w.is_2d_transformation /\ Len(w.pairings) < 3
    THEN w
    ELSE IF w.is_2d_transformation /\ Len(w.pairings) < 2
    THEN w
    ELSE [w EXCEPT !.phase = "destroyed"]

\* KabschRotation.setup after wait_window: a KabschRotation is made when
\* the window's pairings are not empty
KabschRotation_setup(w) ==
    [w EXCEPT !.phase = "returned", !.made = (w.pairings # <<>>)]

OnNewPairing ==
    /\ window.phase = "open"
    /\ \E pairing \in Devices \cup {None} : window' = on_new_pairing(window, pairing)
    /\ UNCHANGED windowOthers

OnDeleteMarkedPairings ==
    /\ window.phase = "open"
    /\ \E marked \in BOOLEAN, selected_idx \in 0..(NumDevices - 1) :
         /\ marked => selected_idx < Len(window.pairings)
         /\ window' = on_delete_marked_pairings(window, marked, selected_idx)
    /\ UNCHANGED windowOthers

\* the check button "Make 2D Transformation"
Toggle2DTransformation ==
    /\ window.phase = "open"
    /\ window' = [window EXCEPT !.is_2d_transformation = ~@]
    /\ UNCHANGED windowOthers

\* the button "Make Transformation"
OnFinish ==
    /\ window.phase = "open"
    /\ window' = on_finish(window)
    /\ UNCHANGED windowOthers

\* WM_DELETE_WINDOW: the window is closed by its title bar
CloseWindow ==
    /\ window.phase = "open"
    /\ window' = [window EXCEPT !.phase = "destroyed"]
    /\ UNCHANGED windowOthers

SetupReturns ==
    /\ window.phase = "destroyed"
    /\ window' = KabschRotation_setup(window)
    /\ UNCHANGED windowOthers

NextWindow ==
    \/ OnNewPairing
    \/ OnDeleteMarkedPairings
    \/ Toggle2DTransformation
    \/ OnFinish
    \/ CloseWindow
    \/ SetupReturns

SpecWindow == InitWindow /\ [][NextWindow]_vars

----------------------------------------------------------------------------
(* StageStatusWidget *)

REFRESHING_RATE == 1000

\* StageStatusWidget.__init__ on a stage whose get_status() hands back
\* `status`: a label for each channel, and one call of
\* after(REFRESHING_RATE, _refresh_status_labels)
StageStatusWidget_init(status) ==
    [status_labels |-> status,
     job |-> "scheduled", delay |-> REFRESHING_RATE,
     refreshes |-> 0, failed |-> FALSE, deleted |-> FALSE,
     stage_status |-> status]

\* _refresh_status_labels, run by the timer: get_status() raises or hands
\* back the stage's status. The timer job has run and no new one is made.
refresh_status_labels(w, get_status_raises) ==
    IF get_status_raises
    THEN [w EXCEPT !.job = "cancelled", !.failed = TRUE]
    ELSE [w EXCEPT !.status_labels = w.stage_status,
                   !.job = "done",
                   !.refreshes = @ + 1]

\* __del__
StageStatusWidget_del(w) ==
    [w EXCEPT !.job = "cancelled", !.deleted = TRUE]

InitStatus ==
    /\ stage = [connected |-> TRUE]
    /\ cal = Calibration_init(stage, "LEFT", "INPUT")
    /\ call = NoCall
    /\ max_reached = cal.state
    /\ vin = EmptyDict
    /\ vout = FALSE
    /\ vdone = FALSE
    /\ mover = MoverNew_init
    /\ stages = [s \in StageIds |-> NewStage]
    /\ mcall = NoMoverCall
    /\ wizard = NoWizard
    /\ trans = NoTransformation
    /\ window = NoWindow
    /\ \E status \in StatusTuples : widget = StageStatusWidget_init(status)

widgetOthers == <<cal, stage, call, max_reached, vin, vout, vdone,
                  mover, stages, mcall, wizard, trans, window>>

\* the stage's status changes
StageStatusChanges ==
    /\ \E status \in StatusTuples \ {widget.stage_status} :
         widget' = [widget EXCEPT !.stage_status = status]
    /\ UNCHANGED widgetOthers

\* the timer runs the update job
RefreshStatusLabels ==
    /\ widget.job = "scheduled"
    /\ \E get_status_raises \in BOOLEAN :
         widget' = refresh_status_labels(widget, get_status_raises)
    /\ UNCHANGED widgetOthers

DeleteWidget ==
    /\ ~widget.deleted
    /\ widget' = StageStatusWidget_del(widget)
    /\ UNCHANGED widgetOthers

NextStatus ==
    \/ StageStatusChanges
    \/ RefreshStatusLabels
    \/ DeleteWidget

SpecStatus == InitStatus /\ [][NextStatus]_vars

\* the timer of the event loop runs a scheduled job
SpecStatusLive == SpecStatus /\ WF_vars(RefreshStatusLabels)

----------------------------------------------------------------------------
(* Properties *)

\* the three conditions on an axis mapping: all three chip axes are mapped,
\* the stage axes used are pairwise distinct and are X, Y, Z, and every
\* direction is POSITIVE or NEGATIVE
MappingConditions(m) ==
    /\ DOMAIN m = {"X", "Y", "Z"}
    /\ \A a, b \in DOMAIN m : a # b => m[a][1] # m[b][1]
    /\ \A a \in DOMAIN m : m[a][1] \in {"X", "Y", "Z"}
    /\ \A a \in DOMAIN m : m[a][2] = 1 \/ m[a][2] = -1

\* entry [row][col] of the matrix an axis mapping stands for: the direction d
\* where chip axis number col is mapped to (stage axis number row, d), else 0
MappingEntry(m, row, col) ==
    IF \E a \in DOMAIN m : AxisValue(a) = col /\ AxisValue(m[a][1]) = row
    THEN LET a == CHOOSE k \in DOMAIN m : AxisValue(k) = col IN m[a][2]
    ELSE 0

\* exactly one nonzero entry per row and per column, and it is +1 or -1
IsSignedPermutationMatrix(M) ==
    /\ DOMAIN M = 0..2
    /\ \A r \in 0..2 : DOMAIN M[r] = 0..2
    /\ \A r \in 0..2 : Cardinality({c \in 0..2 : M[r][c] # 0}) = 1
    /\ \A c \in 0..2 : Cardinality({r \in 0..2 : M[r][c] # 0}) = 1
    /\ \A r, c \in 0..2 : M[r][c] \in {-1, 0, 1}

IdentityMapping == [a \in {"X", "Y", "Z"} |-> <<a, 1>>]

\* a mapping that is no involution and has a NEGATIVE direction
SkewMapping == ("X" :> <<"Y", -1>>) @@ ("Y" :> <<"Z", 1>>) @@ ("Z" :> <<"X", 1>>)

\* C1: in every step of a Calibration the state value does not decrease,
\* except in a step that is a failed connect_to_stage, which sets the state
\* to UNINITIALIZED.
C1_StateMonotone ==
    [][\/ cal'.state >= cal.state
       \/ /\ call'.op = "connect_to_stage"
          /\ call'.stage_result # "True"
          /\ cal'.state = UNINITIALIZED]_vars

\* a failed connect has taken a Calibration from SINGLE_POINT_FIXED down to
\* UNINITIALIZED
C1_Witness ==
    /\ call.op = "connect_to_stage"
    /\ call.raised = "StageError"
    /\ cal.state = UNINITIALIZED
    /\ max_reached = SINGLE_POINT_FIXED

\* C2: after a connect_to_stage call that failed, whether the driver raised
\* its connection error or returned a false result, the state is
\* UNINITIALIZED.
C2_FailedConnectResets ==
    (call.op = "connect_to_stage" /\ call.stage_result # "True")
        => cal.state = UNINITIALIZED

\* C3: a connect_to_stage call that did not establish the connection raises
\* the connection error; the call returns normally only when the stage is
\* connected.
C3_FailedConnectRaises ==
    call.op = "connect_to_stage" =>
        /\ call.stage_result # "True" => call.raised = "StageError"
        /\ call.raised = "none" => call.stage_result = "True"

\* C4: when the stage's connect() succeeds, connect_to_stage returns True and
\* the new state is the old state if that is CONNECTED or higher, and
\* CONNECTED otherwise.
C4_ConnectSuccess ==
    [][(call'.op = "connect_to_stage" /\ call'.stage_result = "True") =>
          /\ call'.raised = "none"
          /\ call'.returned = "True"
          /\ cal'.state = IF cal.state >= 1 THEN cal.state ELSE 1]_vars

\* a successful connect on a Calibration whose state was above CONNECTED
C4_Witness ==
    /\ call.op = "connect_to_stage"
    /\ call.stage_result = "True"
    /\ cal.state = SINGLE_POINT_FIXED

\* C5: the states are reached in the order of the chain: no step takes a
\* Calibration to a state more than one above the highest state it has been
\* in.
C5_ChainOrder ==
    [][cal'.state <= max_reached + 1]_vars

\* C6: fix_coordinate_system with an invalid axis mapping raises ValueError
\* and leaves the stored axis mapping, the rotation matrix and the state as
\* they were.
C6_InvalidMappingRefused ==
    [][(call'.op = "fix_coordinate_system" /\ ~MappingConditions(call'.mapping)) =>
          /\ call'.raised = "ValueError"
          /\ cal'.axes_calibration = cal.axes_calibration
          /\ cal'.axes_rotation_matrix = cal.axes_rotation_matrix
          /\ cal'.state = cal.state]_vars

\* an invalid mapping was refused by a Calibration that holds a mapping other
\* than the default one
C6_Witness ==
    /\ call.op = "fix_coordinate_system"
    /\ ~MappingConditions(call.mapping)
    /\ call.raised = "ValueError"
    /\ cal.axes_calibration = SkewMapping
    /\ cal.state = SINGLE_POINT_FIXED

\* C7: fix_coordinate_system with a valid axis mapping stores the mapping,
\* sets the rotation matrix to the matrix with entry [stage axis][chip axis]
\* = direction for each chip axis and 0 elsewhere, and sets the state to the
\* old state if that is COORDINATE_SYSTEM_FIXED or higher, and to
\* COORDINATE_SYSTEM_FIXED otherwise.
C7_ValidMappingStored ==
    [][(call'.op = "fix_coordinate_system" /\ MappingConditions(call'.mapping)) =>
          /\ call'.raised = "none"
          /\ cal'.axes_calibration = call'.mapping
          /\ DOMAIN cal'.axes_rotation_matrix = 0..2
          /\ \A r, c \in 0..2 :
                 cal'.axes_rotation_matrix[r][c] = MappingEntry(call'.mapping, r, c)
          /\ cal'.state = IF cal.state >= 2 THEN cal.state ELSE 2]_vars

\* a valid mapping whose matrix is not symmetric was stored by a Calibration
\* in state SINGLE_POINT_FIXED
C7_Witness ==
    /\ call.op = "fix_coordinate_system"
    /\ call.mapping = SkewMapping
    /\ cal.axes_calibration = SkewMapping
    /\ cal.state = SINGLE_POINT_FIXED

\* C8: the rotation matrix of a Calibration is a signed permutation matrix,
\* and it is the identity matrix when the stored mapping is the identity
\* mapping.
C8_SignedPermutation ==
    /\ IsSignedPermutationMatrix(cal.axes_rotation_matrix)
    /\ cal.axes_calibration = IdentityMapping =>
           \A r, c \in 0..2 :
               cal.axes_rotation_matrix[r][c] = IF r = c THEN 1 ELSE 0

\* fix_coordinate_system has replaced a mapping by another one
C8_Witness ==
    /\ call.op = "fix_coordinate_system"
    /\ call.raised = "none"
    /\ cal.axes_calibration = SkewMapping
    /\ cal.axes_rotation_matrix[1][0] = -1

\* C9: is_axis_calibration_valid returns true if and only if the three
\* conditions on the mapping hold.
C9_ValidIffConditions ==
    vdone => (vout <=> MappingConditions(vin))

\* is_axis_calibration_valid was applied to a valid mapping and to no dict
\* else in this state
C9_Witness ==
    /\ vdone
    /\ vout
    /\ vin = SkewMapping

\* C10: fix_single_point(t) with a transformation t stores t as the
\* single-point transformation, sets the state to the old state if that is
\* SINGLE_POINT_FIXED or higher and to SINGLE_POINT_FIXED otherwise, and
\* leaves the axis mapping and the rotation matrix as they were.
C10_SinglePointStored ==
    [][(call'.op = "fix_single_point" /\ call'.transformation # 0) =>
          /\ call'.raised = "none"
          /\ cal'.single_point_transformation = call'.transformation
          /\ cal'.state = IF cal.state >= 3 THEN cal.state ELSE 3
          /\ cal'.axes_calibration = cal.axes_calibration
          /\ cal'.axes_rotation_matrix = cal.axes_rotation_matrix]_vars

\* a transformation was fixed on a Calibration that holds a mapping other
\* than the default one
C10_Witness ==
    /\ call.op = "fix_single_point"
    /\ call.transformation = 1
    /\ cal.single_point_transformation = 1
    /\ cal.axes_calibration = SkewMapping
    /\ cal.state = SINGLE_POINT_FIXED

\* C11: a Calibration of a connected stage that the wizard took through the
\* steps "Fix Coordinate System" and "Fix Single Point", and for which a new
\* Kabsch transformation was made on the step "Fully calibrate" before
\* "Finish and Save", is in state FULLY_CALIBRATED and holds that
\* transformation as its full transformation.
C11_FullyCalibratedReached ==
    \A i \in 1..Len(mover.calibrations) :
        (/\ wizard.finished
         /\ stages[mover.calibrations[i].stage].connected
         /\ wizard.current_full_transformations[i] # None) =>
            /\ mover.calibrations[i].cal.state = FULLY_CALIBRATED
            /\ mover.calibrations[i].cal.full_transformation =
                   wizard.current_full_transformations[i]

\* C12: fix_single_point with a null transformation is rejected and leaves
\* the Calibration, its state and its stored transformation as they were.
C12_NullTransformationRejected ==
    [][(call'.op = "fix_single_point" /\ call'.transformation = None) =>
          /\ call'.raised # "none"
          /\ cal' = cal]_vars

\* C13: an absolute move in chip coordinates on a Calibration that holds
\* neither a single-point nor a full transformation fails with an error.
C13_ConversionNeedsTransformation ==
    [][(/\ call'.op = "move_absolute"
        /\ cal.single_point_transformation = None
        /\ cal.full_transformation = None) =>
          call'.raised # "none"]_vars

\* the orientations and the stages of the registered Calibrations
RegisteredOrientations == {mover.calibrations[i].key : i \in 1..Len(mover.calibrations)}
RegisteredStages == {mover.calibrations[i].stage : i \in 1..Len(mover.calibrations)}

\* C14: add_stage_calibration with an orientation that already has a
\* Calibration fails with MoverError and leaves the registry as it was.
C14_OrientationConflictRefused ==
    [][(/\ mcall'.op = "add_stage_calibration"
        /\ mcall'.orientation \in RegisteredOrientations) =>
          /\ mcall'.raised = "MoverError"
          /\ mover' = mover]_vars

\* no stage belongs to two registered Calibrations
StagesDistinct ==
    \A i, j \in 1..Len(mover.calibrations) :
        mover.calibrations[i].stage = mover.calibrations[j].stage => i = j

\* C15: add_stage_calibration with a stage that already appears in a
\* registered Calibration fails with MoverError, whatever orientation and
\* position are given, and leaves the registry unchanged; no stage ever
\* belongs to two registered Calibrations.
C15_StageRegisteredOnce ==
    /\ []StagesDistinct
    /\ [][(/\ mcall'.op = "add_stage_calibration"
           /\ mcall'.stage \in RegisteredStages) =>
             /\ mcall'.raised = "MoverError"
             /\ mover' = mover]_vars

\* a stage registered at LEFT was handed in again for the free orientation
\* RIGHT and refused
C15_Witness ==
    /\ mcall.op = "add_stage_calibration"
    /\ mcall.raised = "MoverError"
    /\ mcall.orientation = "RIGHT"
    /\ mcall.position = "OUTPUT"
    /\ mcall.stage \in RegisteredStages
    /\ RegisteredOrientations = {"LEFT"}

\* no two registered Calibrations have the same orientation
OrientationsDistinct ==
    \A i, j \in 1..Len(mover.calibrations) :
        mover.calibrations[i].key = mover.calibrations[j].key => i = j

\* no two registered Calibrations have the same device position
PositionsDistinct ==
    \A i, j \in 1..Len(mover.calibrations) :
        mover.calibrations[i].cal.device_position =
            mover.calibrations[j].cal.device_position => i = j

ScenarioRegistered ==
    /\ Len(mover.calibrations) = 3
    /\ mover.calibrations[1].key = "LEFT"
    /\ mover.calibrations[1].cal.device_position = "INPUT"
    /\ mover.calibrations[2].key = "RIGHT"
    /\ mover.calibrations[2].cal.device_position = "OUTPUT"
    /\ mover.calibrations[3].key = "TOP"
    /\ mover.calibrations[3].cal.device_position = "INPUT"

\* C17: with three stages registered at LEFT/INPUT, RIGHT/OUTPUT and
\* TOP/INPUT, adding a fourth stage at LEFT/OUTPUT fails and leaves the three
\* Calibrations as they were.
C17_ScenarioFourthRefused ==
    [][(/\ ScenarioRegistered
        /\ mcall'.op = "add_stage_calibration"
        /\ mcall'.stage \notin RegisteredStages
        /\ mcall'.orientation = "LEFT"
        /\ mcall'.position = "OUTPUT") =>
          /\ mcall'.raised = "MoverError"
          /\ mover' = mover]_vars

\* C18: a Mover that holds a Calibration offers an operation after which it
\* holds no Calibration and its settings have their initial values.
C18_ResetOffered ==
    mover.calibrations # <<>> => ENABLED (NextSettings /\ mover' = MoverNew_init)

SettingSetters == {"speed_xy.setter", "speed_z.setter", "acceleration_xy.setter"}
SettingGetters == {"speed_xy.getter", "speed_z.getter", "acceleration_xy.getter"}

\* C19: while no registered stage is connected, setting or reading speed_xy,
\* speed_z or acceleration_xy fails with MoverError whatever the value is,
\* calls no stage setter and leaves the Mover's stored settings unchanged.
C19_NoConnectedStageRefused ==
    [][(/\ mcall'.op \in SettingSetters \cup SettingGetters
        /\ ~has_connected_stages(mover, stages)) =>
          /\ mcall'.raised = "MoverError"
          /\ mcall'.called = <<>>
          /\ mover' = mover
          /\ stages' = stages]_vars

\* speed_xy was set to a value above the range while a stage was registered
\* and none connected
C19_Witness ==
    /\ mcall.op = "speed_xy.setter"
    /\ mcall.value > SPEED_UPPER_BOUND
    /\ mcall.raised = "MoverError"
    /\ mover.calibrations # <<>>
    /\ ~has_connected_stages(mover, stages)

\* C20: with a connected stage, setting speed_xy or speed_z to a value below
\* SPEED_LOWER_BOUND or above SPEED_UPPER_BOUND raises ValueError, calls no
\* stage setter and leaves the stored settings unchanged; the two bounds are
\* not refused: the setter of the first connected stage is called, and when
\* no stage rejects the value it is stored.
C20_SpeedRangeChecked ==
    [][(/\ mcall'.op \in {"speed_xy.setter", "speed_z.setter"}
        /\ has_connected_stages(mover, stages)) =>
          /\ (mcall'.value < SPEED_LOWER_BOUND \/ mcall'.value > SPEED_UPPER_BOUND) =>
                /\ mcall'.raised = "ValueError"
                /\ mcall'.called = <<>>
                /\ mover' = mover
          /\ mcall'.value \in {SPEED_LOWER_BOUND, SPEED_UPPER_BOUND} =>
                /\ mcall'.raised # "ValueError"
                /\ mcall'.called # <<>>
                /\ mcall'.raised = "none" =>
                      IF mcall'.op = "speed_xy.setter"
                      THEN mover'.speed_xy = mcall'.value
                      ELSE mover'.speed_z = mcall'.value]_vars

\* speed_xy was set to the upper bound on a Mover with a connected stage
C20_Witness ==
    /\ mcall.op = "speed_xy.setter"
    /\ mcall.value = SPEED_UPPER_BOUND
    /\ mcall.raised = "none"
    /\ mcall.called # <<>>
    /\ mover.speed_xy = SPEED_UPPER_BOUND

\* C21: with a connected stage and no stage rejecting, setting
\* acceleration_xy to a value from ACCELERATION_LOWER_BOUND to
\* ACCELERATION_UPPER_BOUND succeeds and stores the value; ValueError is
\* raised only for a value outside that range.
C21_AccelerationRangeChecked ==
    [][(/\ mcall'.op = "acceleration_xy.setter"
        /\ has_connected_stages(mover, stages)) =>
          /\ (/\ mcall'.value >= ACCELERATION_LOWER_BOUND
              /\ mcall'.value <= ACCELERATION_UPPER_BOUND
              /\ mcall'.rejecting = {}) =>
                /\ mcall'.raised = "none"
                /\ mover'.acceleration_xy = mcall'.value
          /\ mcall'.raised = "ValueError" =>
                \/ mcall'.value < ACCELERATION_LOWER_BOUND
                \/ mcall'.value > ACCELERATION_UPPER_BOUND]_vars

\* the value the Mover stores for the setting that the setter `op` sets
StoredSetting(m, op) ==
    CASE op = "speed_xy.setter" -> m.speed_xy
      [] op = "speed_z.setter" -> m.speed_z
      [] op = "acceleration_xy.setter" -> m.acceleration_xy

\* the number of times the setter of stage s was called
TimesCalled(s, called) == Cardinality({i \in 1..Len(called) : called[i] = s})

\* C22: after a successful set of speed_xy, speed_z or acceleration_xy to v
\* the Mover stores v, the setter of every registered connected stage was
\* called once, and no other stage's setter was called.
C22_SuccessReachesConnectedStages ==
    [][(mcall'.op \in SettingSetters /\ mcall'.raised = "none") =>
          /\ StoredSetting(mover', mcall'.op) = mcall'.value
          /\ \A s \in RegisteredStages :
                stages[s].connected => TimesCalled(s, mcall'.called) = 1
          /\ \A i \in 1..Len(mcall'.called) :
                /\ mcall'.called[i] \in RegisteredStages
                /\ stages[mcall'.called[i]].connected]_vars

\* speed_xy was set on a Mover with two connected stages
C22_Witness ==
    /\ mcall.op = "speed_xy.setter"
    /\ mcall.raised = "none"
    /\ mcall.value = SPEED_LOWER_BOUND
    /\ mover.speed_xy = SPEED_LOWER_BOUND
    /\ Len(mcall.called) = 2
    /\ \A s \in RegisteredStages : stages[s].connected

\* the position in `todo` of the first stage that rejects
FirstRejecting(todo, rejecting) ==
    CHOOSE k \in 1..Len(todo) :
        /\ todo[k] \in rejecting
        /\ \A j \in 1..(k - 1) : todo[j] \notin rejecting

\* C23: when a connected stage rejects the value of a set that passed the
\* range check, the set raises MoverError, the setters called are those of
\* the connected stages up to and including the first rejecting one, and the
\* Mover's stored settings are unchanged.
C23_FailFastOnRejection ==
    [][(/\ mcall'.op \in SettingSetters
        /\ mcall'.raised # "ValueError"
        /\ \E i \in 1..Len(connected_stages(mover, stages)) :
              connected_stages(mover, stages)[i] \in mcall'.rejecting) =>
          /\ mcall'.raised = "MoverError"
          /\ mcall'.called =
                SubSeq(connected_stages(mover, stages), 1,
                       FirstRejecting(connected_stages(mover, stages), mcall'.rejecting))
          /\ mover' = mover]_vars

\* speed_z was set on a Mover with two connected stages that both reject
C23_Witness ==
    /\ mcall.op = "speed_z.setter"
    /\ mcall.raised = "MoverError"
    /\ Cardinality(mcall.rejecting) = 2
    /\ Len(mcall.called) = 1
    /\ Len(connected_stages(mover, stages)) = 2
    /\ mcall.value # mover.speed_z

\* C24: reading speed_xy, speed_z or acceleration_xy with a connected stage
\* returns without an error and leaves the Mover's stored settings unchanged.
C24_ReadReturnsStored ==
    [][(/\ mcall'.op \in SettingGetters
        /\ has_connected_stages(mover, stages)) =>
          /\ mcall'.raised = "none"
          /\ mover' = mover]_vars

\* C25: for a SinglePointFixation with offset = stage point - chip point and
\* every point P, chip_to_stage(P) = P + offset, stage_to_chip(P) = P - offset,
\* and each conversion of the other's result gives P again.
C25_SinglePointRoundTrip ==
    (trans.phase = "converted" /\ trans.object.kind = "SinglePointFixation") =>
        /\ trans.object.offset = vsub(trans.arguments.stage_coordinate,
                                      trans.arguments.chip_coordinate)
        /\ trans.chip_to_stage = vadd(trans.point, trans.object.offset)
        /\ trans.stage_to_chip = vsub(trans.point, trans.object.offset)
        /\ trans.there_and_back = trans.point
        /\ trans.back_and_there = trans.point

\* C26: for a KabschRotation and every point P, stage_to_chip(chip_to_stage(P))
\* = P; the chip centroid is converted to the stage centroid and the stage
\* centroid to the chip centroid.
C26_KabschRoundTrip ==
    (trans.phase = "converted" /\ trans.object.kind = "KabschRotation") =>
        /\ trans.there_and_back = scaled(trans.object.n, trans.point)
        /\ chip_to_stage(trans.object, trans.object.chip_offset) = trans.object.stage_offset
        /\ stage_to_chip(trans.object, trans.object.stage_offset) = trans.object.chip_offset

\* a point other than the chip centroid went there and back through a
\* KabschRotation that is a quarter turn with both centroids off the origin
C26_Witness ==
    /\ trans.phase = "converted"
    /\ trans.object.kind = "KabschRotation"
    /\ trans.object.matrix = <<<<0, 1>>, <<-1, 0>>>>
    /\ trans.object.chip_offset # <<0, 0>>
    /\ trans.object.stage_offset # trans.object.chip_offset
    /\ scaled(trans.object.n, trans.point) # trans.object.chip_offset
    /\ trans.chip_to_stage # scaled(trans.object.n, trans.point)

\* M times its transpose is the unit matrix
IsOrthogonal(M) ==
    /\ M[1][1] * M[1][1] + M[1][2] * M[1][2] = 1
    /\ M[2][1] * M[2][1] + M[2][2] * M[2][2] = 1
    /\ M[1][1] * M[2][1] + M[1][2] * M[2][2] = 0

C28_MinimumPairings ==
    (window.phase = "returned" /\ window.made) =>
        \/ ~window.is_2d_transformation /\ Len(window.pairings) >= 3
        \/ window.is_2d_transformation /\ Len(window.pairings) >= 2

\* the two entries of the matrix column of a chip axis, as the stage vector
\* of a move by `distance` along that axis
AxisMove(c, axis, distance) ==
    LET v == matrix_dot(c.axes_rotation_matrix,
                        <<IF axis = "X" THEN distance ELSE 0,
                          IF axis = "Y" THEN distance ELSE 0,
                          IF axis = "Z" THEN distance ELSE 0>>)
    IN  <<v[0], v[1], v[2]>>

\* C29: a wiggle_axis(axis) call that completes reads the stage's xy and z speed, sets both
\* to the wiggle speed, commands a relative move of +distance along the chip
\* axis, pauses, commands a relative move of -distance, and sets the speeds
\* read at the start.
C29_WiggleSequence ==
    [][(call'.op = "wiggle_axis" /\ call'.raised = "none") =>
          \E speed_xy \in StageSpeeds, speed_z \in StageSpeeds :
              StageCalls(call'.effects) =
                  <<<<"stage.get_speed_xy", <<>>>>, <<"stage.get_speed_z", <<>>>>,
                    <<"stage.set_speed_xy", <<WIGGLE_SPEED>>>>,
                    <<"stage.set_speed_z", <<WIGGLE_SPEED>>>>,
                    <<"stage.move_relative2", AxisMove(cal, call'.axis, WIGGLE_DISTANCE)>>,
                    <<"stage.move_relative2", AxisMove(cal, call'.axis, -WIGGLE_DISTANCE)>>,
                    <<"stage.set_speed_xy", <<speed_xy>>>>,
                    <<"stage.set_speed_z", <<speed_z>>>>>>]_vars

\* C30: move_relative(x, y, z) commands the stage's relative move with the
\* vector rotation matrix * (x, y, z).
C30_MoveInStageCoordinates ==
    [][call'.op = "move_relative" =>
          LET v == matrix_dot(cal.axes_rotation_matrix, call'.vector)
          IN  StageCalls(call'.effects) =
                  <<<<"stage.move_relative2", <<v[0], v[1], v[2]>>>>>>]_vars

\* C33: the state of a Calibration agrees with the data it holds: the state
\* is SINGLE_POINT_FIXED or higher exactly when a single-point
\* transformation is stored; after a connect failure has reset the state, no
\* transformation is held any more.
C33_StateAgreesWithData ==
    (cal.state >= SINGLE_POINT_FIXED) <=> (cal.single_point_transformation # None)

\* the Calibration registered under an orientation
CalibrationOf(m, orientation) ==
    m.calibrations[CHOOSE i \in 1..Len(m.calibrations) :
                       m.calibrations[i].key = orientation].cal

\* C39: a newly created Calibration is CONNECTED if its stage reports
\* connected at construction and UNINITIALIZED otherwise; its axis mapping
\* takes each chip axis to the same stage axis with direction POSITIVE, its
\* rotation matrix is the identity, and it holds neither a single-point nor
\* a full transformation.
C39_NewCalibration ==
    [][(mcall'.op = "add_stage_calibration" /\ mcall'.raised = "none") =>
          LET c == CalibrationOf(mover', mcall'.orientation)
          IN  /\ c.state = IF stages[mcall'.stage].connected THEN CONNECTED
                           ELSE UNINITIALIZED
              /\ DOMAIN c.axes_calibration = Axis
              /\ \A a \in Axis : c.axes_calibration[a] = <<a, POSITIVE>>
              /\ \A row \in 0..2, col \in 0..2 :
                     c.axes_rotation_matrix[row][col] = IF row = col THEN 1 ELSE 0
              /\ c.single_point_transformation = None
              /\ c.full_transformation = None]_vars

\* a Calibration was created for a stage that was connected
C39_Witness ==
    /\ mcall.op = "add_stage_calibration"
    /\ mcall.raised = "none"
    /\ stages[mcall.stage].connected
    /\ CalibrationOf(mover, mcall.orientation).state = CONNECTED

\* C38: the Mover's state is UNINITIALIZED when no Calibration is registered
\* and otherwise the least state of the registered Calibrations; the Mover is
\* at COORDINATE_SYSTEM_FIXED or higher only when every registered
\* Calibration is; and after a connect_to_stage call that did not connect
\* the stage, the Mover's state is UNINITIALIZED.
C38_MoverStateIsMinimum ==
    /\ [](/\ Len(mover.calibrations) = 0 => MoverNew_state(mover) = UNINITIALIZED
          /\ Len(mover.calibrations) # 0 =>
                /\ \A i \in 1..Len(mover.calibrations) :
                       MoverNew_state(mover) <= mover.calibrations[i].cal.state
                /\ \E i \in 1..Len(mover.calibrations) :
                       MoverNew_state(mover) = mover.calibrations[i].cal.state
          /\ MoverNew_state(mover) >= COORDINATE_SYSTEM_FIXED =>
                \A i \in 1..Len(mover.calibrations) :
                    mover.calibrations[i].cal.state >= COORDINATE_SYSTEM_FIXED)
    /\ [][(mcall'.op = "connect_to_stage" /\ ~stages'[mcall'.stage].connected) =>
              MoverNew_state(mover') = UNINITIALIZED]_vars

\* the value of the last call of the stage's setter `name` in `effects` that
\* returned, or `before` where there is none
LastSet(effects, name, before) ==
    LET sets == {i \in 1..Len(effects) : effects[i][1] = name}
    IN  IF sets = {} THEN before
        ELSE effects[CHOOSE i \in sets : \A j \in sets : j <= i][2][1]

\* C36: when a call of the stage raises during wiggle_axis after the speeds
\* were overridden, the error is raised to the caller and the stage's xy and
\* z speeds are those it reported at the start of the call.
C36_SpeedsRestoredOnError ==
    [][(call'.op = "wiggle_axis" /\ call'.fail_at > 3) =>
          LET returned == SubSeq(call'.effects, 1, Len(call'.effects) - 1)
          IN  /\ call'.raised = "StageError"
              /\ LastSet(returned, "stage.set_speed_xy", call'.speeds[1]) = call'.speeds[1]
              /\ LastSet(returned, "stage.set_speed_z", call'.speeds[2]) = call'.speeds[2]]_vars

\* C34: when MovementWizardController.save fails, the Mover's registered
\* calibrations are those from before the call.
C34_SaveAllOrNothing ==
    [][(mcall'.op = "save" /\ mcall'.raised # "none") =>
          mover'.calibrations = mover.calibrations]_vars

\* C40: the status labels are refreshed again and again until a get_status
\* call fails or the widget is deleted: whenever the labels differ from the
\* stage's status, later they show a status the stage reported since, or
\* the updates have ended by a failure or a deletion.
C40_StatusEventuallyShown ==
    (widget.status_labels # widget.stage_status /\ ~widget.failed /\ ~widget.deleted)
        ~> (widget.status_labels = widget.stage_status \/ widget.failed \/ widget.deleted)

\* C37: the wizard leaves the step "Fix Coordinate System" only while the
\* pending axis mapping of every registered Calibration is valid, and the
\* step "Fix Single Point" forwards only while every registered Calibration
\* has a pending single-point transformation; and on the third step every
\* registered Calibration is in state SINGLE_POINT_FIXED or higher and has
\* a single-point transformation.
C37_StepsGated ==
    /\ [][(wizard.step = "fix_coordinate_system" /\ wizard'.step # wizard.step) =>
              \A i \in 1..Len(mover.calibrations) :
                  is_axis_calibration_valid(wizard.current_axis_calibration[i])]_vars
    /\ [][(wizard.step = "fix_single_point" /\ wizard'.step = "fully_calibrate") =>
              \A i \in 1..Len(mover.calibrations) :
                  wizard.current_single_point_transformations[i] # None]_vars
    /\ [](wizard.step = "fully_calibrate" =>
              \A i \in 1..Len(mover.calibrations) :
                  /\ mover.calibrations[i].cal.state >= SINGLE_POINT_FIXED
                  /\ mover.calibrations[i].cal.single_point_transformation # None)

\* the wizard is on its third step with two registered Calibrations, one of
\* them with a stage that is not connected
C37_Witness ==
    /\ wizard.step = "fully_calibrate"
    /\ Len(mover.calibrations) = 2
    /\ \E s \in 1..2 : ~stages[s].connected

\* C32: the stored axis mapping of every Calibration is valid and the stored
\* rotation matrix is the one derived from the stored axis mapping.
C32_StoredMappingDerived ==
    \A i \in 1..Len(mover.calibrations) :
        LET c == mover.calibrations[i].cal
        IN  /\ is_axis_calibration_valid(c.axes_calibration)
            /\ c.axes_rotation_matrix =
                   rotation_items(zeros(3), c.axes_calibration, DOMAIN c.axes_calibration)

\* C35: at most one wiggle is in progress; a click on "Wiggle" while a
\* wiggle runs is rejected, changes no Calibration and calls no stage; and
\* when a wiggle has completed or failed the flag is cleared and a click on
\* "Wiggle" is not rejected.
C35_OneWiggleAtATime ==
    /\ [](Cardinality(wizard.wiggling) <= 1 /\ (wizard.wiggling # {} => wizard.performing_wiggle))
    /\ [][(wizard.wiggling # {}
            /\ wizard'.last.event \in {"rejected", "cancelled", "error", "started"}) =>
              /\ wizard'.last.event = "rejected"
              /\ mover' = mover
              /\ wizard'.last.stage_calls = 0]_vars
    /\ [][wizard'.last.event \in {"completed", "failed"} =>
              /\ ~wizard'.performing_wiggle
              /\ wizard'.wiggling = {}
              /\ \A i \in 1..Len(mover'.calibrations) :
                     on_wiggle_axis_request(mover'.calibrations, wizard', i, TRUE).outcome
                         # "rejected"]_vars

\* a click on "Wiggle" of one Calibration was rejected while the wiggle of
\* another Calibration runs
C35_Witness ==
    /\ wizard.last.event = "rejected"
    /\ wizard.wiggling # {}
    /\ wizard.last.calibration \notin wizard.wiggling

\* C31: when save_coordinate_system_fixation is given an invalid mapping
\* for a Calibration, the stored axis mapping, the rotation matrix and the
\* state of that Calibration after the call are those from before it.
C31_PreviousStatePreserved ==
    [][wizard'.last.event = "refused" =>
          LET i == wizard'.last.calibration
              before == mover.calibrations[i].cal
              after == mover'.calibrations[i].cal
          IN  /\ after.axes_calibration = before.axes_calibration
              /\ after.axes_rotation_matrix = before.axes_rotation_matrix
              /\ after.state = before.state]_vars

====
